---------------------------- MODULE Spec2Model ----------------------------
(***************************************************************************)
(* A model of the MULTIX bootstrap assembler.                              *)
(*                                                                         *)
(*   - src/unnamed/part_000 (v0.9.1): class Assembler, modelled as a state *)
(*     machine: compile() = reset + lexing, then pass1 line by line, the   *)
(*     end-of-input closing of pass1, pass2 line by line, the closing of   *)
(*     pass2 and the return, or the catch of an exception.                 *)
(*   - src/app.js (v0.6, top of the file): the register table and          *)
(*     isReg / parseReg.                                                   *)
(*                                                                         *)
(* Strings are sequences of one-character strings, so that startsWith,     *)
(* endsWith, includes, replace, slice, parseInt and the template literals  *)
(* are computed.  A line record holds its tokens (text.split(/\s+/)) and   *)
(* its indent; the text of the line is the tokens joined by one space.     *)
(*                                                                         *)
(* JavaScript values: numbers are integers (inside 32 bits), and NaN,      *)
(* undefined and "a function object inherited from Object.prototype" are   *)
(* three reserved integers that no arithmetic of the model produces.       *)
(*                                                                         *)
(* Specifications: Spec (one compile call, of a source of block structure  *)
(* or of instruction lines), SpecBlocks (one compile call, of a source of  *)
(* block structure), SpecReuse (three compile calls on one instance) and   *)
(* SpecV06 (the calls of isReg and parseReg of v0.6).                      *)
(***************************************************************************)
EXTENDS Integers, Sequences, FiniteSets, TLC

\* ------------------------------------------------------------------ bounds
\* The number of body lines of a source of block structure, and of a source of
\* instruction lines.
MaxLines == 3
InstrLines == 2
\* The register tokens given to isReg and parseReg of v0.6 are x0 .. x<MaxRegTok>.
MaxRegTok == 63

\* ----------------------------------------------------------- JS values
NaN == 0 - 2147483647
Undef == 0 - 2147483646
FnObj == 0 - 2147483645

IsNum(v) == v # NaN /\ v # Undef /\ v # FnObj

\* a + b, a - b, a * b on numbers (ToNumber of undefined or of a function is NaN)
Add(a, b) == IF IsNum(a) /\ IsNum(b) THEN a + b ELSE NaN
Sub(a, b) == IF IsNum(a) /\ IsNum(b) THEN a - b ELSE NaN
Mul(a, b) == IF IsNum(a) /\ IsNum(b) THEN a * b ELSE NaN

\* ToInt32: the operand of every bitwise operator
ToInt32(v) == IF IsNum(v) THEN v ELSE 0

Pow2(n) == 2 ^ n

RECURSIVE BitAnd32(_, _)
BitAnd32(a, b) ==
    IF a = 0 \/ b = 0 THEN 0
    ELSE IF a = -1 THEN b
    ELSE IF b = -1 THEN a
    ELSE 2 * BitAnd32(a \div 2, b \div 2) + (a % 2) * (b % 2)

RECURSIVE BitOr32(_, _)
BitOr32(a, b) ==
    IF a = 0 THEN b
    ELSE IF b = 0 THEN a
    ELSE IF a = -1 \/ b = -1 THEN -1
    ELSE 2 * BitOr32(a \div 2, b \div 2) + (IF a % 2 = 1 \/ b % 2 = 1 THEN 1 ELSE 0)

\* x & y, x | y
And(x, y) == BitAnd32(ToInt32(x), ToInt32(y))
Or(x, y) == BitOr32(ToInt32(x), ToInt32(y))

\* x << n for 1 < n < 32: the low 32 - n bits move up, the result is a signed int32
MinInt32 == (0 - 1073741824) * 2
Shl(x, n) ==
    LET u == ToInt32(x) % Pow2(32 - n)
        half == Pow2(31 - n)
    IN  IF n = 31 THEN (IF u = 1 THEN MinInt32 ELSE 0)
        ELSE IF u >= half THEN (u - half) * Pow2(n) + MinInt32
        ELSE u * Pow2(n)

\* x >> n (sign-propagating) and x >>> n (zero-fill), 0 < n < 32
Sar(x, n) == ToInt32(x) \div Pow2(n)
Shr(x, n) == (ToInt32(x) \div Pow2(n)) % Pow2(32 - n)

\* ------------------------------------------------------------- strings
\* The printable ASCII characters, in code order from 32 (the grave accent, code 96,
\* which no token of the model contains, is written by name).
Ascii ==
    <<" ", "!", "\"", "#", "$", "%", "&", "'", "(", ")", "*", "+", ",", "-", ".", "/",
      "0", "1", "2", "3", "4", "5", "6", "7", "8", "9", ":", ";", "<", "=", ">", "?",
      "@", "A", "B", "C", "D", "E", "F", "G", "H", "I", "J", "K", "L", "M", "N", "O",
      "P", "Q", "R", "S", "T", "U", "V", "W", "X", "Y", "Z", "[", "\\", "]", "^", "_",
      "GRAVE", "a", "b", "c", "d", "e", "f", "g", "h", "i", "j", "k", "l", "m", "n", "o",
      "p", "q", "r", "s", "t", "u", "v", "w", "x", "y", "z", "{", "|", "}", "~">>

CharCode(c) == 31 + CHOOSE k \in 1..Len(Ascii) : Ascii[k] = c

IsDigit(c) == CharCode(c) >= 48 /\ CharCode(c) <= 57
IsUpper(c) == CharCode(c) >= 65 /\ CharCode(c) <= 90
IsLower(c) == CharCode(c) >= 97 /\ CharCode(c) <= 122
\* [a-zA-Z_] and \w
IsIdentStart(c) == IsUpper(c) \/ IsLower(c) \/ c = "_"
IsWordChar(c) == IsIdentStart(c) \/ IsDigit(c)

\* String.prototype.toLowerCase
ToLowerChar(c) == IF IsUpper(c) THEN Ascii[CharCode(c) + 32 - 31] ELSE c
ToLowerCase(s) == [k \in 1..Len(s) |-> ToLowerChar(s[k])]

StartsWith(s, p) == Len(s) >= Len(p) /\ SubSeq(s, 1, Len(p)) = p
EndsWith(s, p) == Len(s) >= Len(p) /\ SubSeq(s, Len(s) - Len(p) + 1, Len(s)) = p
Includes(s, p) == \E k \in 1..(Len(s) - Len(p) + 1) : SubSeq(s, k, k + Len(p) - 1) = p
\* s.slice(0, -n)
SliceOff(s, n) == SubSeq(s, 1, Len(s) - n)
\* s.replace(/[...]/g, ''): drop every character of the class
StripChars(s, class) == SelectSeq(s, LAMBDA c : c \notin class)

\* the template literal of a number n >= 0
RECURSIVE DecStr(_)
DecStr(n) == IF n < 10 THEN <<Ascii[n + 48 - 31]>> ELSE DecStr(n \div 10) \o <<Ascii[(n % 10) + 48 - 31]>>

\* the text of a line: its tokens joined by one space
RECURSIVE Join(_)
Join(tokens) ==
    IF Len(tokens) = 0 THEN <<>>
    ELSE IF Len(tokens) = 1 THEN tokens[1]
    ELSE tokens[1] \o <<" ">> \o Join(Tail(tokens))

\* the value of a digit in a radix, or -1
DigitVal(c, radix) ==
    LET v == IF IsDigit(c) THEN CharCode(c) - 48
             ELSE IF IsLower(c) THEN CharCode(c) - 97 + 10
             ELSE IF IsUpper(c) THEN CharCode(c) - 65 + 10
             ELSE 36
    IN  IF v < radix THEN v ELSE -1

RECURSIVE DigitsPrefix(_, _, _, _)
\* the number read from the longest prefix of digits, NaN when it is empty
DigitsPrefix(s, radix, acc, any) ==
    IF Len(s) = 0 \/ DigitVal(s[1], radix) < 0
    THEN (IF any THEN acc ELSE NaN)
    ELSE DigitsPrefix(Tail(s), radix, acc * radix + DigitVal(s[1], radix), TRUE)

\* parseInt(s, radix): radix 0 stands for the absent radix
ParseInt(s, radix) ==
    LET neg == Len(s) > 0 /\ s[1] = "-"
        s1 == IF Len(s) > 0 /\ s[1] \in {"-", "+"} THEN Tail(s) ELSE s
        hex == radix \in {0, 16} /\ Len(s1) >= 2 /\ s1[1] = "0" /\ s1[2] \in {"x", "X"}
        s2 == IF hex THEN SubSeq(s1, 3, Len(s1)) ELSE s1
        r == IF hex \/ radix = 16 THEN 16 ELSE 10
        v == DigitsPrefix(s2, r, 0, FALSE)
    IN  IF v = NaN THEN NaN ELSE IF neg THEN 0 - v ELSE v

\* s.charCodeAt(1)
CharCodeAt1(s) == IF Len(s) >= 2 THEN CharCode(s[2]) ELSE NaN

\* tokens[k] of the code is Tok(tokens, k + 1); an absent token is the empty string,
\* which split(/\s+/) of a trimmed non-empty text never yields
NoTok == <<>>
Tok(tokens, k) == IF k <= Len(tokens) THEN tokens[k] ELSE NoTok

\* ------------------------------------------------------------ JS objects
\* A property read obj[key] on an object created by {}: an own property, else what
\* Object.prototype provides, else undefined.
ObjectPrototypeKeys ==
    { <<"t","o","S","t","r","i","n","g">>,
      <<"v","a","l","u","e","O","f">>,
      <<"c","o","n","s","t","r","u","c","t","o","r">> }

EmptyObject == <<>>
Get(obj, key) ==
    IF key \in DOMAIN obj THEN obj[key]
    ELSE IF key \in ObjectPrototypeKeys THEN FnObj
    ELSE Undef
Put(obj, key, val) == (key :> val) @@ obj

\* ------------------------------------------------- registers (v0.9.1)
\* for (let i = 0; i < 32; i++) RISCV.REGS[`x${i}`] = i
NumRegs == 32
RegName(i) == <<"x">> \o DecStr(i)
RECURSIVE FillREGS(_, _, _)
FillREGS(obj, i, n) == IF i < n THEN FillREGS(Put(obj, RegName(i), i), i + 1, n) ELSE obj
REGS == FillREGS(EmptyObject, 0, NumRegs)

\* parseReg: the register number, or the throw of Error("Unknown register: ...")
parseReg(str) ==
    IF Get(REGS, str) # Undef THEN [thrown |-> FALSE, val |-> Get(REGS, str)]
    ELSE [thrown |-> TRUE, val |-> Undef]
isReg(str) == Get(REGS, str) # Undef

\* -------------------------------------------------- registers (v0.6)
\* for (let i = 0; i < 32 - 1; i++) RISCV.REGS[`x${i}`] = i
REGS06 == FillREGS(EmptyObject, 0, 32 - 1)
parseReg06(str) ==
    IF Get(REGS06, str) # Undef THEN [thrown |-> FALSE, val |-> Get(REGS06, str)]
    ELSE [thrown |-> TRUE, val |-> Undef]
isReg06(str) == Get(REGS06, str) # Undef

\* ------------------------------------------------------- value resolver
parseValue(str, constants, labels) ==
    IF str = NoTok THEN 0
    ELSE
    LET low == ToLowerCase(str)
        kb == EndsWith(low, <<"k", "b">>)
        mb == ~kb /\ EndsWith(low, <<"m", "b">>)
        multiplier == IF kb THEN 1024 ELSE IF mb THEN 1024 * 1024 ELSE 1
        s == IF kb \/ mb THEN SliceOff(str, 2) ELSE str
    IN  IF Get(constants, s) # Undef THEN Mul(Get(constants, s), multiplier)
        ELSE IF Get(labels, s) # Undef THEN Get(labels, s)
        ELSE IF StartsWith(s, <<"0", "x">>) THEN Mul(ParseInt(s, 16), multiplier)
        ELSE IF StartsWith(s, <<"'">>) THEN Mul(CharCodeAt1(s), multiplier)
        ELSE LET val == ParseInt(s, 0)
             IN  IF val # NaN THEN Mul(val, multiplier) ELSE 0

\* ---------------------------------------------------------------- encoder
\* A trace entry: a mnemonic entry is the two-space-prefixed string of one emitted
\* instruction (its mnemonic and the numbers the template prints); a comment entry
\* is a source line, an origin line or an end-of-block marker.
TraceAsm(mn, args) == [kind |-> "asm", mn |-> mn, args |-> args, text |-> <<>>]
TraceComment(kind, text, args) == [kind |-> kind, mn |-> ";", args |-> args, text |-> text]

emitTrace(o, entry) == [o EXCEPT !.asmTrace = Append(@, entry)]

\* a pushWord that stores the word most significant byte first
pushWord_msbFirst(o, word) ==
    [o EXCEPT !.code = @ \o <<BitAnd32(word \div Pow2(24), 255), BitAnd32(word \div Pow2(16), 255),
                              BitAnd32(word \div Pow2(8), 255), BitAnd32(word, 255)>>]

\* word is the result of |, an int32 whatever the arguments were: every integer
\* stands for itself here, also the three that stand for NaN, undefined and a function
\* where a value of any type is expected
pushWord(o, word) ==
    [o EXCEPT !.code = @ \o <<BitAnd32(word, 255), BitAnd32(word \div Pow2(8), 255),
                              BitAnd32(word \div Pow2(16), 255), BitAnd32(word \div Pow2(24), 255)>>]

emitR(o, op, f3, f7, rd, rs1, rs2, asm) ==
    emitTrace(pushWord(o, Or(Or(Or(Or(Or(Shl(f7, 25), Shl(rs2, 20)), Shl(rs1, 15)),
                                   Shl(f3, 12)), Shl(rd, 7)), op)), asm)

emitI(o, op, f3, rd, rs1, imm, asm) ==
    emitTrace(pushWord(o, Or(Or(Or(Or(Shl(And(imm, 4095), 20), Shl(rs1, 15)),
                                Shl(f3, 12)), Shl(rd, 7)), op)), asm)

emitS(o, op, f3, rs1, rs2, imm, asm) ==
    emitTrace(pushWord(o, Or(Or(Or(Or(Or(Shl(And(Sar(imm, 5), 127), 25), Shl(rs2, 20)),
                                   Shl(rs1, 15)), Shl(f3, 12)),
                             Shl(And(imm, 31), 7)), op)), asm)

emitU(o, op, rd, imm, asm) ==
    emitTrace(pushWord(o, Or(Or(Shl(imm, 12), Shl(rd, 7)), op)), asm)

\* a B-type encoder that lays the offset out as an S-type immediate
emitB_likeS(o, op, f3, rs1, rs2, imm, asm) ==
    emitTrace(pushWord(o, Or(Or(Or(Or(Or(Shl(And(Sar(imm, 5), 127), 25), Shl(rs2, 20)),
                                   Shl(rs1, 15)), Shl(f3, 12)),
                             Shl(And(imm, 31), 7)), op)), asm)

emitB(o, op, f3, rs1, rs2, imm, asm) ==
    emitTrace(pushWord(o, Or(Or(Or(Or(Or(Or(Or(Shl(And(Sar(imm, 12), 1), 31),
                                               Shl(And(Sar(imm, 5), 63), 25)),
                                            Shl(rs2, 20)), Shl(rs1, 15)), Shl(f3, 12)),
                                   Shl(And(Sar(imm, 1), 15), 8)),
                                Shl(And(Sar(imm, 11), 1), 7)), op)), asm)

emitJ(o, op, rd, imm, asm) ==
    emitTrace(pushWord(o, Or(Or(Or(Or(Or(Shl(And(Sar(imm, 20), 1), 31),
                                         Shl(And(Sar(imm, 1), 1023), 21)),
                                      Shl(And(Sar(imm, 11), 1), 20)),
                                   Shl(And(Sar(imm, 12), 255), 12)),
                                Shl(rd, 7)), op)), asm)

\* a load of a constant that takes 2047 to be out of the 12-bit range
emitLoadConst_below2047(o, rd, val) ==
    IF IsNum(val) /\ val >= -2048 /\ val < 2047
    THEN emitI(o, 19, 0, rd, 0, val, TraceAsm("LI", <<rd, val>>))
    ELSE LET uimm == And(Shr(val, 12), 1048575)
         IN  emitU(o, 55, rd, uimm, TraceAsm("LUI", <<rd, uimm>>))

emitLoadConst(o, rd, val) ==
    IF IsNum(val) /\ val >= -2048 /\ val <= 2047
    THEN emitI(o, 19, 0, rd, 0, val, TraceAsm("LI", <<rd, val>>))
    ELSE LET uimm == And(Shr(val, 12), 1048575)
         IN  emitU(o, 55, rd, uimm, TraceAsm("LUI", <<rd, uimm>>))

\* ------------------------------------------------------------ line forms
\* the operator tokens of the range test, and the arithmetic operators
CondOps == { <<"<">>, <<">">>, <<"=", "=">>, <<"!", "=">>, <<"<", "=">>, <<">", "=">> }
ArithOps == { <<"+">>, <<"-">>, <<"|">>, <<"&">>, <<"^">> }

T0(tokens) == Tok(tokens, 1)
LineStartsWithColon(tokens) == StartsWith(Join(tokens), <<":">>)
LineEndsWithColon(tokens) == EndsWith(Join(tokens), <<":">>)
\* /^[a-zA-Z_]\w*$/
IsIdentifier(s) == Len(s) >= 1 /\ IsIdentStart(s[1]) /\ \A k \in 2..Len(s) : IsWordChar(s[k])
IsBlockOpener(tokens) == T0(tokens) \in { <<"&">>, <<"?">> }
IsCallForm(tokens) == Len(tokens) >= 2 /\ StartsWith(tokens[2], <<"[", "-", "-">>)
IsBreakOrContinue(tokens) == T0(tokens) \in { <<".">>, <<".", ".">> }

\* a range test that knows only the four operators that have a branch
isRange_fourOps(tokens) ==
    /\ T0(tokens) = <<"&">>
    /\ Tok(tokens, 3) \notin { <<"<">>, <<">", "=">>, <<"=", "=">>, <<"!", "=">> }
    /\ Len(tokens) >= 4

\* t0 === '&' && ![...].includes(tokens[2]) && tokens.length >= 4
isRange(tokens) == T0(tokens) = <<"&">> /\ Tok(tokens, 3) \notin CondOps /\ Len(tokens) >= 4
\* tokens[4] ? parseInt(tokens[4]) : 1
RangeStep(tokens) == IF Tok(tokens, 5) # NoTok THEN ParseInt(Tok(tokens, 5), 0) ELSE 1

BStart(n) == <<"_", "B", "_", "S", "T", "A", "R", "T", "_">> \o DecStr(n)
BEnd(n) == <<"_", "B", "_", "E", "N", "D", "_">> \o DecStr(n)

\* the frame a block opener pushes (a while or if frame has no reg and no step)
RangeFrame(tokens, indent, n) ==
    [type |-> "range", indent |-> indent, start |-> BStart(n), end |-> BEnd(n),
     reg |-> Tok(tokens, 2), step |-> RangeStep(tokens)]
CondFrame(tokens, indent, n) ==
    [type |-> IF T0(tokens) = <<"&">> THEN "while" ELSE "if", indent |-> indent,
     start |-> BStart(n), end |-> BEnd(n), reg |-> NoTok, step |-> Undef]

Top(stack) == stack[Len(stack)]
Pop(stack) == SubSeq(stack, 1, Len(stack) - 1)
Pushed(b) == [ev |-> "push", frame |-> b]
Popped(b) == [ev |-> "pop", frame |-> b]

\* ------------------------------------------------------------------ pass1
\* The state of pass1 is a record: the locals pc, inCode and blockStack, the fields
\* of the instance that pass1 writes (labels, constants, origin, blockCounter) and
\* hist, the pushes and pops of the block stack so far.

\* the bytes a frame popped by a dedent adds to pc
P1DedentBytes(type) == IF type = "while" THEN 4 ELSE IF type = "range" THEN 8 ELSE 0
\* the bytes a frame popped at the end of the input adds to pc
P1CloseBytes(type) == IF type = "range" THEN 8 ELSE 4

\* a dedent loop that keeps a frame opened at the column of the line (< in place of <=)
RECURSIVE P1Dedent_strict(_, _)
P1Dedent_strict(s, indent) ==
    IF Len(s.blockStack) > 0 /\ indent < Top(s.blockStack).indent
    THEN LET b == Top(s.blockStack)
         IN  P1Dedent_strict([s EXCEPT !.blockStack = Pop(@),
                                       !.pc = Add(@, P1DedentBytes(b.type)),
                                       !.hist = Append(@, Popped(b))], indent)
    ELSE s

RECURSIVE P1Dedent(_, _)
P1Dedent(s, indent) ==
    IF Len(s.blockStack) > 0 /\ indent <= Top(s.blockStack).indent
    THEN LET b == Top(s.blockStack)
         IN  P1Dedent([s EXCEPT !.blockStack = Pop(@),
                                !.pc = Add(@, P1DedentBytes(b.type)),
                                !.hist = Append(@, Popped(b))], indent)
    ELSE s

\* a block opener of pass1 that takes every range step to be 1
P1Opener_unitStep(s, tokens, indent) ==
    LET n == s.blockCounter + 1
        b == [RangeFrame(tokens, indent, n) EXCEPT !.step = 1]
    IN  IF isRange(tokens)
        THEN [s EXCEPT !.blockCounter = n,
                       !.labels = Put(@, BStart(n), Add(s.pc, 4)),
                       !.blockStack = Append(@, b),
                       !.hist = Append(@, Pushed(b)),
                       !.pc = Add(@, 8)]
        ELSE [s EXCEPT !.blockCounter = n,
                       !.labels = IF T0(tokens) = <<"&">> THEN Put(@, BStart(n), s.pc) ELSE @,
                       !.blockStack = Append(@, CondFrame(tokens, indent, n)),
                       !.hist = Append(@, Pushed(CondFrame(tokens, indent, n))),
                       !.pc = Add(@, 4)]

\* the block opener of pass1
P1Opener(s, tokens, indent) ==
    LET n == s.blockCounter + 1
    IN  IF isRange(tokens)
        THEN [s EXCEPT !.blockCounter = n,
                       !.labels = Put(@, BStart(n), Add(s.pc, 4)),
                       !.blockStack = Append(@, RangeFrame(tokens, indent, n)),
                       !.hist = Append(@, Pushed(RangeFrame(tokens, indent, n))),
                       !.pc = Add(@, 8)]
        ELSE [s EXCEPT !.blockCounter = n,
                       !.labels = IF T0(tokens) = <<"&">> THEN Put(@, BStart(n), s.pc) ELSE @,
                       !.blockStack = Append(@, CondFrame(tokens, indent, n)),
                       !.hist = Append(@, Pushed(CondFrame(tokens, indent, n))),
                       !.pc = Add(@, 4)]

\* the byte contribution of a line that is in code and is no label and no opener
P1LineBytes(tokens, labels) ==
    LET t0 == T0(tokens)
        t1 == Tok(tokens, 2)
    IN  IF t0 = <<"_">> THEN 4
        ELSE IF t0 = <<"=">> THEN 12
        ELSE IF IsCallForm(tokens) THEN 20
        ELSE IF IsBreakOrContinue(tokens) THEN 4
        ELSE IF StartsWith(t0, <<"[">>) THEN (IF StartsWith(t0, <<"[", "-", "-">>) THEN 8 ELSE 4)
        ELSE IF isReg(t0)
             THEN (IF t1 # NoTok /\ StartsWith(t1, <<"[">>)
                   THEN (IF Includes(t1, <<"+", "+">>) THEN 8 ELSE 4)
                   ELSE 4)
        ELSE IF Get(labels, t0) # Undef \/ IsIdentifier(t0) THEN 4
        ELSE 0

\* a line of pass1 that stores NAME VALUE in this.constants in the code section too
P1Line_constantsAnywhere(s, ln) ==
    LET tokens == ln.tokens
        d == P1Dedent(s, ln.indent)
    IN  IF LineStartsWithColon(tokens)
        THEN LET valStr == Tok(tokens, 2)
                 val == parseValue(valStr, d.constants, d.labels)
                 pc1 == IF valStr # NoTok THEN val ELSE d.pc
             IN  [d EXCEPT !.inCode = TRUE,
                           !.origin = IF valStr # NoTok THEN val ELSE @,
                           !.pc = pc1,
                           !.labels = Put(@, <<":">>, pc1)]
        ELSE IF LineEndsWithColon(tokens)
        THEN [d EXCEPT !.inCode = TRUE, !.labels = Put(@, SliceOff(Join(tokens), 1), d.pc)]
        ELSE IF ~d.inCode
        THEN [d EXCEPT !.constants = Put(@, T0(tokens), parseValue(Tok(tokens, 2), d.constants, d.labels))]
        ELSE IF IsBlockOpener(tokens) /\ ~IsCallForm(tokens)
        THEN P1Opener(d, tokens, ln.indent)
        ELSE [d EXCEPT !.pc = Add(@, P1LineBytes(tokens, d.labels)),
                       !.constants = Put(@, T0(tokens), parseValue(Tok(tokens, 2), d.constants, d.labels))]

\* one iteration of the loop of pass1 over the lines
P1Line(s, ln) ==
    LET tokens == ln.tokens
        d == P1Dedent(s, ln.indent)
    IN  IF LineStartsWithColon(tokens)
        THEN LET valStr == Tok(tokens, 2)
                 val == parseValue(valStr, d.constants, d.labels)
                 pc1 == IF valStr # NoTok THEN val ELSE d.pc
             IN  [d EXCEPT !.inCode = TRUE,
                           !.origin = IF valStr # NoTok THEN val ELSE @,
                           !.pc = pc1,
                           !.labels = Put(@, <<":">>, pc1)]
        ELSE IF LineEndsWithColon(tokens)
        THEN [d EXCEPT !.inCode = TRUE, !.labels = Put(@, SliceOff(Join(tokens), 1), d.pc)]
        ELSE IF ~d.inCode
        THEN [d EXCEPT !.constants = Put(@, T0(tokens), parseValue(Tok(tokens, 2), d.constants, d.labels))]
        ELSE IF IsBlockOpener(tokens) /\ ~IsCallForm(tokens)
        THEN P1Opener(d, tokens, ln.indent)
        ELSE [d EXCEPT !.pc = Add(@, P1LineBytes(tokens, d.labels))]

\* the closing of the frames still open at the end of the input
\* a closing that pops only the innermost frame (an if in place of the while)
P1Close_topOnly(s) ==
    IF Len(s.blockStack) > 0
    THEN LET b == Top(s.blockStack)
             pc1 == Add(s.pc, P1CloseBytes(b.type))
         IN  [s EXCEPT !.blockStack = Pop(@),
                       !.pc = pc1,
                       !.labels = Put(@, b.end, pc1),
                       !.hist = Append(@, Popped(b))]
    ELSE s

RECURSIVE P1Close(_)
P1Close(s) ==
    IF Len(s.blockStack) > 0
    THEN LET b == Top(s.blockStack)
             pc1 == Add(s.pc, P1CloseBytes(b.type))
         IN  P1Close([s EXCEPT !.blockStack = Pop(@),
                               !.pc = pc1,
                               !.labels = Put(@, b.end, pc1),
                               !.hist = Append(@, Popped(b))])
    ELSE s

\* ------------------------------------------------------------------ pass2
\* The state of pass2 is a record: the locals pc, inCode, blockStack and bCounter,
\* the fields code and asmTrace of the instance, hist as in pass1, and thrown / err:
\* whether an exception left the pass, and which.
UnknownRegister(str) == [name |-> "Error", message |-> "Unknown register", tok |-> str]
TypeError == [name |-> "TypeError", message |-> "Cannot read properties of undefined", tok |-> NoTok]
NoError == [name |-> "", message |-> "", tok |-> NoTok]
Throw(s, e) == [s EXCEPT !.thrown = TRUE, !.err = e]
Adv(s, n) == [s EXCEPT !.pc = Add(@, n)]

\* the instructions that close a frame: the loop-back jump of a while, the step and
\* the loop-back jump of a range, nothing for an if; then the end-of-block comment
P2CloseFrame(s, b, labels) ==
    LET closed ==
          IF b.type = "while"
          THEN LET offset == Sub(Get(labels, b.start), s.pc)
               IN  Adv(emitJ(s, 111, 0, offset, TraceAsm("JAL x0 (Loop Back)", <<offset>>)), 4)
          ELSE IF b.type = "range"
          THEN LET r == parseReg(b.reg)
                   reg == r.val
                   s1 == Adv(emitI(s, 19, 0, reg, reg, b.step, TraceAsm("ADDI", <<reg, reg, b.step>>)), 4)
                   offset == Sub(Get(labels, b.start), s1.pc)
               IN  IF r.thrown THEN Throw(s, UnknownRegister(b.reg))
                   ELSE Adv(emitJ(s1, 111, 0, offset, TraceAsm("JAL x0 (Range Next)", <<offset>>)), 4)
          ELSE s
    IN  IF closed.thrown THEN closed
        ELSE emitTrace(closed, TraceComment("; --- End of Block", b.end, <<>>))

\* a dedent loop of pass2 that keeps a frame at the column of the line
RECURSIVE P2Dedent_strict(_, _, _)
P2Dedent_strict(s, indent, labels) ==
    IF ~s.thrown /\ Len(s.blockStack) > 0 /\ indent < Top(s.blockStack).indent
    THEN LET b == Top(s.blockStack)
         IN  P2Dedent_strict(P2CloseFrame([s EXCEPT !.blockStack = Pop(@), !.hist = Append(@, Popped(b))],
                                   b, labels), indent, labels)
    ELSE s

RECURSIVE P2Dedent(_, _, _)
P2Dedent(s, indent, labels) ==
    IF ~s.thrown /\ Len(s.blockStack) > 0 /\ indent <= Top(s.blockStack).indent
    THEN LET b == Top(s.blockStack)
         IN  P2Dedent(P2CloseFrame([s EXCEPT !.blockStack = Pop(@), !.hist = Append(@, Popped(b))],
                                   b, labels), indent, labels)
    ELSE s

\* _
P2Halt(s) == Adv(emitJ(s, 111, 0, 0, TraceAsm("JAL x0, 0 (Halt)", <<>>)), 4)

\* = [REG++]
P2Return(s, memToken) ==
    LET r == parseReg(StripChars(memToken, {"[", "]", "+"}))
        reg == r.val
        s1 == emitI(s, 3, 3, 1, reg, 0, TraceAsm("LD", <<1, 0, reg>>))
        s2 == emitI(s1, 19, 0, reg, reg, 8, TraceAsm("ADDI", <<reg, reg, 8>>))
        s3 == emitI(s2, 103, 0, 0, 1, 0, TraceAsm("JALR x0, 0(x1)", <<>>))
    IN  IF r.thrown THEN Throw(s, UnknownRegister(StripChars(memToken, {"[", "]", "+"})))
        ELSE Adv(s3, 12)

\* a call whose jump offset is taken from pc of the line, not of the jump
P2Call_fromLineStart(s, tokens, labels) ==
    LET target == T0(tokens)
        regStr == StripChars(tokens[2], {"[", "]", "-"})
        r == parseReg(regStr)
        reg == r.val
        s1 == emitU(s, 23, 1, 0, TraceAsm("AUIPC", <<1, 0>>))
        s2 == emitI(s1, 19, 0, 1, 1, 20, TraceAsm("ADDI", <<1, 1, 20>>))
        s3 == emitI(s2, 19, 0, reg, reg, -8, TraceAsm("ADDI", <<reg, reg, -8>>))
        s4 == emitS(s3, 35, 3, reg, 1, 0, TraceAsm("SD", <<1, 0, reg>>))
        offset == Sub(Get(labels, target), s.pc)
        s5 == emitJ(s4, 111, 0, offset, TraceAsm("JAL x0, target", <<offset>>))
    IN  IF r.thrown THEN Throw(s, UnknownRegister(regStr)) ELSE Adv(s5, 20)

\* TARGET [--REG]
P2Call(s, tokens, labels) ==
    LET target == T0(tokens)
        regStr == StripChars(tokens[2], {"[", "]", "-"})
        r == parseReg(regStr)
        reg == r.val
        s1 == emitU(s, 23, 1, 0, TraceAsm("AUIPC", <<1, 0>>))
        s2 == emitI(s1, 19, 0, 1, 1, 20, TraceAsm("ADDI", <<1, 1, 20>>))
        s3 == emitI(s2, 19, 0, reg, reg, -8, TraceAsm("ADDI", <<reg, reg, -8>>))
        s4 == emitS(s3, 35, 3, reg, 1, 0, TraceAsm("SD", <<1, 0, reg>>))
        offset == Sub(Sub(Get(labels, target), s.pc), 16)
        s5 == emitJ(s4, 111, 0, offset, TraceAsm("JAL x0, target", <<offset>>))
    IN  IF r.thrown THEN Throw(s, UnknownRegister(regStr)) ELSE Adv(s5, 20)

\* [...blockStack].reverse().find(b => b.type === 'while' || b.type === 'range')
IsLoopFrame(b) == b.type = "while" \/ b.type = "range"
HasLoopFrame(stack) == \E k \in 1..Len(stack) : IsLoopFrame(stack[k])
LoopBlock(stack) ==
    stack[CHOOSE k \in 1..Len(stack) :
            IsLoopFrame(stack[k]) /\ \A j \in (k + 1)..Len(stack) : ~IsLoopFrame(stack[j])]

\* a break or continue that is skipped when no loop is open (if (loopBlock) { ... })
P2BreakContinue_guarded(s, tokens, labels) ==
    IF ~HasLoopFrame(s.blockStack) THEN Adv(s, 4)
    ELSE LET loopBlock == LoopBlock(s.blockStack)
             targetLabel == IF T0(tokens) = <<".">> THEN loopBlock.end ELSE loopBlock.start
             offset == Sub(Get(labels, targetLabel), s.pc)
         IN  Adv(emitJ(s, 111, 0, offset,
                       TraceAsm(IF T0(tokens) = <<".">> THEN "JAL x0 (break)" ELSE "JAL x0 (continue)",
                                <<offset>>)), 4)

\* . and ..
P2BreakContinue(s, tokens, labels) ==
    IF ~HasLoopFrame(s.blockStack) THEN Throw(s, TypeError)
    ELSE LET loopBlock == LoopBlock(s.blockStack)
             targetLabel == IF T0(tokens) = <<".">> THEN loopBlock.end ELSE loopBlock.start
             offset == Sub(Get(labels, targetLabel), s.pc)
         IN  Adv(emitJ(s, 111, 0, offset,
                       TraceAsm(IF T0(tokens) = <<".">> THEN "JAL x0 (break)" ELSE "JAL x0 (continue)",
                                <<offset>>)), 4)

\* the branch of a ? or while-form & opener: nothing for an operator outside the four
P2CondBranch(s, op, rs1, rs2, offset) ==
    IF op = <<"<">> THEN emitB(s, 99, 5, rs1, rs2, offset, TraceAsm("BGE", <<rs1, rs2>>))
    ELSE IF op = <<">", "=">> THEN emitB(s, 99, 4, rs1, rs2, offset, TraceAsm("BLT", <<rs1, rs2>>))
    ELSE IF op = <<"=", "=">> THEN emitB(s, 99, 1, rs1, rs2, offset, TraceAsm("BNE", <<rs1, rs2>>))
    ELSE IF op = <<"!", "=">> THEN emitB(s, 99, 0, rs1, rs2, offset, TraceAsm("BEQ", <<rs1, rs2>>))
    ELSE s

\* & and ?
P2Opener(s, tokens, indent, labels) ==
    LET n == s.bCounter + 1
        c == [s EXCEPT !.bCounter = n]
    IN  IF isRange(tokens)
        THEN LET r1 == parseReg(Tok(tokens, 2))
                 r2 == parseReg(Tok(tokens, 3))
                 r3 == parseReg(Tok(tokens, 4))
                 b == RangeFrame(tokens, indent, n)
                 p == [c EXCEPT !.blockStack = Append(@, b), !.hist = Append(@, Pushed(b))]
                 s1 == Adv(emitI(p, 19, 0, r1.val, r2.val, 0, TraceAsm("MV", <<r1.val, r2.val>>)), 4)
                 offset == Sub(Get(labels, BEnd(n)), s1.pc)
             IN  IF r1.thrown THEN Throw(c, UnknownRegister(Tok(tokens, 2)))
                 ELSE IF r2.thrown THEN Throw(c, UnknownRegister(Tok(tokens, 3)))
                 ELSE IF r3.thrown THEN Throw(c, UnknownRegister(Tok(tokens, 4)))
                 ELSE Adv(emitB(s1, 99, 5, r1.val, r3.val, offset, TraceAsm("BGE", <<r1.val, r3.val>>)), 4)
        ELSE LET b == CondFrame(tokens, indent, n)
                 p == [c EXCEPT !.blockStack = Append(@, b), !.hist = Append(@, Pushed(b))]
                 rs1 == parseReg(Tok(tokens, 2))
                 rs2 == parseReg(Tok(tokens, 4))
                 offset == Sub(Get(labels, BEnd(n)), p.pc)
             IN  IF rs1.thrown THEN Throw(p, UnknownRegister(Tok(tokens, 2)))
                 ELSE IF rs2.thrown THEN Throw(p, UnknownRegister(Tok(tokens, 4)))
                 ELSE Adv(P2CondBranch(p, Tok(tokens, 3), rs1.val, rs2.val, offset), 4)

\* [REG] SRC and [--REG] SRC
P2Store(s, tokens) ==
    LET t0 == T0(tokens)
        src == parseReg(Tok(tokens, 2))
        pre == StartsWith(t0, <<"[", "-", "-">>)
        regStr == IF pre THEN StripChars(t0, {"[", "]", "-"}) ELSE StripChars(t0, {"[", "]"})
        r == parseReg(regStr)
        s1 == emitI(s, 19, 0, r.val, r.val, -8, TraceAsm("ADDI", <<r.val, r.val, -8>>))
    IN  IF src.thrown THEN Throw(s, UnknownRegister(Tok(tokens, 2)))
        ELSE IF r.thrown THEN Throw(s, UnknownRegister(regStr))
        ELSE IF pre THEN Adv(emitS(s1, 35, 3, r.val, src.val, 0, TraceAsm("SD", <<src.val, 0, r.val>>)), 8)
        ELSE Adv(emitS(s, 35, 3, r.val, src.val, 0, TraceAsm("SD", <<src.val, 0, r.val>>)), 4)

\* a register line that folds two values by loading the first one only
P2RegLine_firstOperand(s, tokens, labels, constants) ==
    LET rd == parseReg(T0(tokens)).val
        t1 == Tok(tokens, 2)
        t3 == Tok(tokens, 4)
        post == Includes(t1, <<"+", "+">>)
        regStr == IF post THEN StripChars(t1, {"[", "]", "+"}) ELSE StripChars(t1, {"[", "]"})
        r == parseReg(regStr)
        ld == emitI(s, 3, 3, rd, r.val, 0, TraceAsm("LD", <<rd, 0, r.val>>))
        rs1 == parseReg(t1).val
    IN  IF t1 = NoTok THEN Throw(s, TypeError)
        ELSE IF StartsWith(t1, <<"[">>)
        THEN IF r.thrown THEN Throw(s, UnknownRegister(regStr))
             ELSE IF post
             THEN Adv(emitI(ld, 19, 0, r.val, r.val, 8, TraceAsm("ADDI", <<r.val, r.val, 8>>)), 8)
             ELSE Adv(ld, 4)
        ELSE IF Len(tokens) > 2 /\ Tok(tokens, 3) \in ArithOps
        THEN IF isReg(t1)
             THEN IF isReg(t3)
                  THEN Adv(emitR(s, 51, 0, 0, rd, rs1, parseReg(t3).val,
                                 TraceAsm("ADD", <<rd, rs1, parseReg(t3).val>>)), 4)
                  ELSE Adv(emitI(s, 19, 0, rd, rs1, parseValue(t3, constants, labels),
                                 TraceAsm("ADDI", <<rd, rs1, parseValue(t3, constants, labels)>>)), 4)
             ELSE Adv(emitLoadConst(s, rd, parseValue(t1, constants, labels)), 4)
        ELSE IF isReg(t1) THEN Adv(emitI(s, 19, 0, rd, rs1, 0, TraceAsm("MV", <<rd, rs1>>)), 4)
        ELSE Adv(emitLoadConst(s, rd, parseValue(t1, constants, labels)), 4)

\* RD [REG], RD [REG++], RD T1 OP T2, RD SRC
P2RegLine(s, tokens, labels, constants) ==
    LET rd == parseReg(T0(tokens)).val
        t1 == Tok(tokens, 2)
        t3 == Tok(tokens, 4)
        post == Includes(t1, <<"+", "+">>)
        regStr == IF post THEN StripChars(t1, {"[", "]", "+"}) ELSE StripChars(t1, {"[", "]"})
        r == parseReg(regStr)
        ld == emitI(s, 3, 3, rd, r.val, 0, TraceAsm("LD", <<rd, 0, r.val>>))
        rs1 == parseReg(t1).val
    IN  IF t1 = NoTok THEN Throw(s, TypeError)
        ELSE IF StartsWith(t1, <<"[">>)
        THEN IF r.thrown THEN Throw(s, UnknownRegister(regStr))
             ELSE IF post
             THEN Adv(emitI(ld, 19, 0, r.val, r.val, 8, TraceAsm("ADDI", <<r.val, r.val, 8>>)), 8)
             ELSE Adv(ld, 4)
        ELSE IF Len(tokens) > 2 /\ Tok(tokens, 3) \in ArithOps
        THEN IF isReg(t1)
             THEN IF isReg(t3)
                  THEN Adv(emitR(s, 51, 0, 0, rd, rs1, parseReg(t3).val,
                                 TraceAsm("ADD", <<rd, rs1, parseReg(t3).val>>)), 4)
                  ELSE Adv(emitI(s, 19, 0, rd, rs1, parseValue(t3, constants, labels),
                                 TraceAsm("ADDI", <<rd, rs1, parseValue(t3, constants, labels)>>)), 4)
             ELSE Adv(emitLoadConst(s, rd, Add(parseValue(t1, constants, labels),
                                               parseValue(t3, constants, labels))), 4)
        ELSE IF isReg(t1) THEN Adv(emitI(s, 19, 0, rd, rs1, 0, TraceAsm("MV", <<rd, rs1>>)), 4)
        ELSE Adv(emitLoadConst(s, rd, parseValue(t1, constants, labels)), 4)

\* IDENT alone
P2Jump(s, t0, labels) ==
    LET offset == Sub(Get(labels, t0), s.pc)
    IN  Adv(emitJ(s, 111, 0, offset, TraceAsm("JAL x0, label", <<offset>>)), 4)

\* the dispatch of a line that is in code and is no label
P2Dispatch(s, tokens, indent, labels, constants) ==
    LET t0 == T0(tokens)
        t1 == Tok(tokens, 2)
    IN  IF t0 = <<"_">> THEN P2Halt(s)
        ELSE IF t0 = <<"=">> /\ t1 = NoTok THEN Throw(s, TypeError)
        ELSE IF t0 = <<"=">> /\ Includes(t1, <<"+", "+">>) THEN P2Return(s, t1)
        ELSE IF IsCallForm(tokens) THEN P2Call(s, tokens, labels)
        ELSE IF IsBreakOrContinue(tokens) THEN P2BreakContinue(s, tokens, labels)
        ELSE IF IsBlockOpener(tokens) THEN P2Opener(s, tokens, indent, labels)
        ELSE IF StartsWith(t0, <<"[">>) THEN P2Store(s, tokens)
        ELSE IF isReg(t0) THEN P2RegLine(s, tokens, labels, constants)
        ELSE IF Get(labels, t0) # Undef THEN P2Jump(s, t0, labels)
        ELSE s

\* one iteration of the loop of pass2 over the lines
P2Line(s, ln, labels, constants) ==
    LET tokens == ln.tokens
        d == P2Dedent(s, ln.indent, labels)
    IN  IF d.thrown THEN d
        ELSE IF LineStartsWithColon(tokens) \/ LineEndsWithColon(tokens)
        THEN IF LineStartsWithColon(tokens)
             THEN emitTrace([d EXCEPT !.inCode = TRUE], TraceComment("; origin", Join(tokens), <<d.pc>>))
             ELSE [d EXCEPT !.inCode = TRUE]
        ELSE IF ~d.inCode THEN d
        ELSE P2Dispatch(emitTrace(d, TraceComment("; line", Join(tokens), <<>>)),
                        tokens, ln.indent, labels, constants)

\* the closing of the frames still open at the end of the input
RECURSIVE P2Close(_, _)
P2Close(s, labels) ==
    IF ~s.thrown /\ Len(s.blockStack) > 0
    THEN LET b == Top(s.blockStack)
         IN  P2Close(P2CloseFrame([s EXCEPT !.blockStack = Pop(@), !.hist = Append(@, Popped(b))],
                                  b, labels), labels)
    ELSE s

\* ---------------------------------------------------------------- sources
\* A source is its raw lines after the removal of the comments: the tokens of the
\* text and the column of the first one; a raw line without tokens is blank.
Line(indent, tokens) == [tokens |-> tokens, indent |-> indent]

x1 == <<"x", "1">>
x2 == <<"x", "2">>
x3 == <<"x", "3">>
x4 == <<"x", "4">>
x5 == <<"x", "5">>
x31 == <<"x", "3", "1">>
x32 == <<"x", "3", "2">>
f == <<"f">>
RAM == <<"R", "A", "M">>
toString == <<"t", "o", "S", "t", "r", "i", "n", "g">>

\* the texts of the lines of block structure
Menu ==
    { << <<"_">> >>,
      << <<".">> >>,
      << <<".", ".">> >>,
      << <<"&">>, x1, <<"<">>, x2 >>,
      << <<"?">>, x1, <<"=", "=">>, x2 >>,
      << <<"&">>, x4, x1, x2, <<"8">> >> }

\* the texts of the instruction lines
InstrMenu ==
    { << <<"_">> >>,
      << <<".">> >>,
      << <<"=">> >>,
      << <<"=">>, <<"[", "x", "3", "1", "+", "+", "]">> >>,
      << <<"f", ":">> >>,
      << f >>,
      << f, <<"[", "-", "-", "x", "3", "1", "]">> >>,
      << <<"[", "x", "4", "]">>, x3 >>,
      << <<"[", "-", "-", "x", "4", "]">>, x3 >>,
      << <<"[", "x", "4", "]">>, x32 >>,
      << <<"[", "x", "4", "]">>, toString >>,
      << x5, <<"7">> >>,
      << x5, <<"0", "x", "1", "2", "3", "4", "5">> >>,
      << x5, RAM >>,
      << x5, x1 >>,
      << x5, x1, <<"+">>, x2 >>,
      << x5, x1, <<"-">>, <<"3">> >>,
      << x5, <<"[", "x", "4", "+", "+", "]">> >>,
      << <<"?">>, x1, <<">">>, x2 >>,
      << <<"?">>, x1, <<">", "=">>, x2 >>,
      << <<"&">>, x1, <<"!", "=">>, x2 >>,
      << <<"&">>, x4, x1, x32 >> }

\* the indent columns of the lines of block structure, and of the instruction lines
Indents == {0, 1, 2}
InstrIndents == {0, 1}

\* the lines of the bodies of block structure, and of the bodies of instructions
BodyLines == { Line(ind, t) : ind \in Indents, t \in Menu }
InstrBodyLines == { Line(ind, t) : ind \in InstrIndents, t \in InstrMenu }
\* a body: its first line is at column 0
IsBody(b) == Len(b) > 0 => b[1].indent = 0

\* the entry point: alone, with a literal value, with a constant defined before it
Headers ==
    { << Line(0, << <<":">> >>) >>,
      << Line(0, << <<":">>, <<"2">> >>) >>,
      << Line(0, << RAM, <<"0", "x", "8", "0", "0", "0">> >>), Line(0, << <<":">>, RAM >>) >> }

\* ---------------------------------------------------------- state machine
VARIABLES
    code, labels, constants, origin, lines, asmTrace, blockCounter,  \* the fields of the instance
    phase,       \* "idle", "pass1", "pass2", "done" (compile returned bytes), "failed" (returned null)
    pc, inCode, blockStack, bCounter,   \* the locals of the running pass
    i,           \* the index of the next line of the running pass, from 1
    ret,         \* what the last compile returned
    console,     \* the messages given to log()
    queue,       \* the sources of the compile calls to come
    hist1, hist2,   \* the pushes and pops of the block stack in pass1 and in pass2
    pass1Pc,     \* pc of pass1 when it returned
    ncompiles,   \* the number of compile calls so far
    fresh,       \* the outcome of the first compile call, made on the new instance
    call06, tok06, res06,  \* v0.6: the last call of isReg or parseReg, its token, its result
    emitCall     \* the encoder call made on the new instance: its format and its arguments

vars == <<code, labels, constants, origin, lines, asmTrace, blockCounter, phase, pc, inCode,
          blockStack, bCounter, i, ret, console, queue, hist1, hist2, pass1Pc, ncompiles, fresh,
          call06, tok06, res06, emitCall>>
vars06 == <<call06, tok06, res06>>

\* the fields of the instance
This ==
    [code |-> code, labels |-> labels, constants |-> constants, origin |-> origin,
     lines |-> lines, asmTrace |-> asmTrace, blockCounter |-> blockCounter]
\* the object before the constructor has run
NewObject ==
    [code |-> <<>>, labels |-> EmptyObject, constants |-> EmptyObject, origin |-> 0,
     lines |-> <<>>, asmTrace |-> <<>>, blockCounter |-> 0]

\* a reset that leaves labels and constants as they are
reset_keepSymbols(this) ==
    [code |-> <<>>, labels |-> this.labels, constants |-> this.constants, origin |-> 0,
     lines |-> <<>>, asmTrace |-> <<>>, blockCounter |-> 0]
\* reset(): the values it gives the fields of this
reset(this) ==
    [code |-> <<>>, labels |-> EmptyObject, constants |-> EmptyObject, origin |-> 0,
     lines |-> <<>>, asmTrace |-> <<>>, blockCounter |-> 0]

\* the loop of compile over rawLines: a blank text is skipped
Lex(source) == SelectSeq(source, LAMBDA l : Len(l.tokens) > 0)

NoRet == [kind |-> "none", bytes |-> <<>>]
Null == [kind |-> "null", bytes |-> <<>>]
Bytes(c) == [kind |-> "bytes", bytes |-> c]

Log(type, msg, size, trace, e) == [type |-> type, msg |-> msg, size |-> size, trace |-> trace, err |-> e]
LogBuildStarted == Log("sys", "Build started (v0.9.1)...", 0, <<>>, NoError)
LogSuccess(c, trace) ==
    << Log("success", "Build Success. Size", Len(c), <<>>, NoError),
       Log("sys", "--- INTERMEDIATE RISC-V ASM ---", 0, <<>>, NoError) >>
    \o [k \in 1..Len(trace) |-> Log("", "trace", 0, <<trace[k]>>, NoError)]
LogBuildError(e) == Log("err", "Build Error", 0, <<>>, e)

NoOutcome == [set |-> FALSE, lines |-> <<>>, ret |-> NoRet, asmTrace |-> <<>>,
              labels |-> EmptyObject, constants |-> EmptyObject]
Outcome(r, trace) == [set |-> TRUE, lines |-> lines, ret |-> r, asmTrace |-> trace,
                      labels |-> labels, constants |-> constants]

\* new Assembler(): constructor() { this.reset(); }
\* no encoder call is made outside pass2
NoEmit == [fmt |-> "none"]

InitInstance ==
    /\ \E r \in {reset(NewObject)} :
          /\ code = r.code /\ labels = r.labels /\ constants = r.constants
          /\ origin = r.origin /\ lines = r.lines /\ asmTrace = r.asmTrace
          /\ blockCounter = r.blockCounter
    /\ phase = "idle" /\ pc = 0 /\ inCode = FALSE /\ blockStack = <<>> /\ bCounter = 0 /\ i = 1
    /\ ret = NoRet /\ console = <<>> /\ hist1 = <<>> /\ hist2 = <<>> /\ pass1Pc = 0
    /\ ncompiles = 0 /\ fresh = NoOutcome
    /\ call06 = "none" /\ tok06 = NoTok /\ res06 = Undef

\* one call to come: of ':' and a body of block structure of up to n lines
OneBlockSource(n) ==
    \E k \in 0..n : \E b \in [1..k -> BodyLines] :
        IsBody(b) /\ queue = << << Line(0, << <<":">> >>) >> \o b >>
\* one call to come: of an entry point and a body of instructions of up to n lines
OneInstrSource(n) ==
    \E h \in Headers : \E k \in 0..n : \E b \in [1..k -> InstrBodyLines] :
        IsBody(b) /\ queue = << h \o b >>

Init ==
    /\ InitInstance /\ emitCall = NoEmit
    /\ OneBlockSource(MaxLines) \/ OneInstrSource(InstrLines)

\* compile(source) up to the call of pass1, and the first line of pass1
Compile ==
    /\ phase \in {"idle", "done", "failed"}
    /\ queue # <<>>
    /\ queue' = Tail(queue)
    /\ ncompiles' = ncompiles + 1
    /\ \E r \in {reset(This)} :
          /\ code' = r.code /\ labels' = r.labels /\ constants' = r.constants
          /\ origin' = r.origin /\ asmTrace' = r.asmTrace
          /\ blockCounter' = r.blockCounter
          /\ lines' = r.lines \o Lex(Head(queue))
    /\ console' = Append(console, LogBuildStarted)
    /\ phase' = "pass1"
    /\ pc' = 0 /\ inCode' = FALSE /\ blockStack' = <<>> /\ i' = 1
    /\ hist1' = <<>> /\ hist2' = <<>>
    /\ UNCHANGED <<bCounter, ret, pass1Pc, fresh>>
    /\ UNCHANGED <<vars06, emitCall>>

P1State == [pc |-> pc, inCode |-> inCode, blockStack |-> blockStack, labels |-> labels,
            constants |-> constants, origin |-> origin, blockCounter |-> blockCounter,
            hist |-> hist1]

SetP1(s) ==
    /\ pc' = s.pc /\ inCode' = s.inCode /\ blockStack' = s.blockStack
    /\ labels' = s.labels /\ constants' = s.constants /\ origin' = s.origin
    /\ blockCounter' = s.blockCounter /\ hist1' = s.hist

\* pass1: one line
Pass1Line ==
    /\ phase = "pass1"
    /\ i <= Len(lines)
    /\ \E s \in {P1Line(P1State, lines[i])} : SetP1(s)
    /\ i' = i + 1
    /\ UNCHANGED <<code, lines, asmTrace, phase, bCounter, ret, console, queue, hist2,
                   pass1Pc, ncompiles, fresh>>
    /\ UNCHANGED <<vars06, emitCall>>

\* pass1: the end of the input; pass2 begins
Pass1End ==
    /\ phase = "pass1"
    /\ i > Len(lines)
    /\ \E s \in {P1Close(P1State)} :
           /\ labels' = s.labels /\ constants' = s.constants /\ origin' = s.origin
           /\ blockCounter' = s.blockCounter /\ hist1' = s.hist
           /\ pass1Pc' = s.pc
           /\ pc' = s.origin
    /\ phase' = "pass2"
    /\ inCode' = FALSE /\ blockStack' = <<>> /\ bCounter' = 0 /\ i' = 1
    /\ UNCHANGED <<code, lines, asmTrace, ret, console, queue, hist2, ncompiles, fresh>>
    /\ UNCHANGED <<vars06, emitCall>>

P2State == [pc |-> pc, inCode |-> inCode, blockStack |-> blockStack, bCounter |-> bCounter,
            code |-> code, asmTrace |-> asmTrace, hist |-> hist2, thrown |-> FALSE,
            err |-> NoError]

SetP2(s) ==
    /\ pc' = s.pc /\ inCode' = s.inCode /\ blockStack' = s.blockStack
    /\ bCounter' = s.bCounter /\ code' = s.code /\ asmTrace' = s.asmTrace /\ hist2' = s.hist

\* catch (e) { log(...); return null; }
Catch(s) ==
    /\ phase' = "failed"
    /\ console' = Append(console, LogBuildError(s.err))
    /\ ret' = Null
    /\ fresh' = IF ncompiles = 1 THEN Outcome(Null, s.asmTrace) ELSE fresh

\* pass2: one line, or the exception it throws
Pass2Line ==
    /\ phase = "pass2"
    /\ i <= Len(lines)
    /\ \E s \in {P2Line(P2State, lines[i], labels, constants)} :
           /\ SetP2(s)
           /\ IF s.thrown
              THEN Catch(s) /\ i' = i
              ELSE i' = i + 1 /\ UNCHANGED <<phase, console, ret, fresh>>
    /\ UNCHANGED <<labels, constants, origin, lines, blockCounter, queue, hist1, pass1Pc, ncompiles>>
    /\ UNCHANGED <<vars06, emitCall>>

\* pass2: the end of the input, and the return of compile
Pass2End ==
    /\ phase = "pass2"
    /\ i > Len(lines)
    /\ \E s \in {P2Close(P2State, labels)} :
           /\ SetP2(s)
           /\ IF s.thrown
              THEN Catch(s)
              ELSE /\ phase' = "done"
                   /\ console' = console \o LogSuccess(s.code, s.asmTrace)
                   /\ ret' = Bytes(s.code)
                   /\ fresh' = IF ncompiles = 1 THEN Outcome(Bytes(s.code), s.asmTrace) ELSE fresh
    /\ UNCHANGED <<labels, constants, origin, lines, blockCounter, queue, hist1, pass1Pc,
                   ncompiles, i>>
    /\ UNCHANGED <<vars06, emitCall>>

Next == Compile \/ Pass1Line \/ Pass1End \/ Pass2Line \/ Pass2End

Spec == Init /\ [][Next]_vars

\* --------------------------------------- the sources of block structure only
InitBlocks ==
    /\ InitInstance /\ emitCall = NoEmit
    /\ OneBlockSource(MaxLines)

SpecBlocks == InitBlocks /\ [][Next]_vars

\* ------------------------------------------- compile calls on one instance
\* the sources of the calls compile(B), compile(A), compile(B)
ReuseSources ==
    { << Line(0, << <<":">> >>), Line(0, << <<"_">> >>) >>,
      << Line(0, << RAM, <<"0", "x", "8", "0", "0", "0">> >>), Line(0, << <<":">>, RAM >>),
         Line(0, << <<"f", ":">> >>), Line(0, << x5, RAM >>) >>,
      << Line(0, << <<":">> >>), Line(0, << x5, RAM >>) >>,
      << Line(0, << <<":">> >>), Line(0, << f >>) >>,
      << Line(0, << <<":">> >>), Line(0, << x5, f >>) >>,
      << Line(0, << <<":">>, <<"8">> >>), Line(0, << <<"f", ":">> >>), Line(0, << f >>) >>,
      << Line(0, << <<":">> >>), Line(0, << <<"_">> >>), Line(0, << <<".">> >>) >>,
      << Line(0, << <<":">> >>), Line(0, << <<"&">>, x1, <<"<">>, x2 >>),
         Line(1, << <<"?">>, x1, <<"=", "=">>, x2 >>), Line(2, << <<".", ".">> >>) >>,
      << Line(0, << <<":">>, <<"2">> >>), Line(0, << <<"&">>, x4, x1, x2, <<"8">> >>),
         Line(1, << <<"[", "x", "4", "]">>, x32 >>) >>,
      << Line(0, << <<":">> >>), Line(0, << f, <<"[", "-", "-", "x", "3", "1", "]">> >>) >>,
      << Line(0, << f, <<"1", "6">> >>), Line(0, << <<":">> >>) >> }

InitReuse ==
    /\ InitInstance /\ emitCall = NoEmit
    /\ queue \in { <<b, a, b>> : a \in ReuseSources, b \in ReuseSources }

SpecReuse == InitReuse /\ [][Next]_vars

\* ------------------------------------------- the sources of one arithmetic line
\* the operands that are no register: literals, and the constant RAM
FoldOperands ==
    { <<"7">>, <<"1">>, <<"-", "3">>, <<"2", "0", "4", "7">>, <<"0", "x", "1", "2", "3", "4", "5">>,
      <<"4", "K", "B">>, <<"'", "A">>, RAM }
\* one call to come: of an entry point and the line RD T1 + T2
OneFoldSource ==
    \E h \in Headers : \E rd \in {x5, x31} : \E t1 \in FoldOperands : \E t2 \in FoldOperands :
        queue = << h \o << Line(0, << rd, t1, <<"+">>, t2 >>) >> >>

InitFold ==
    /\ InitInstance /\ emitCall = NoEmit
    /\ OneFoldSource

SpecFold == InitFold /\ [][Next]_vars

\* ------------------------------------------------------ the sources of calls
\* the lines around a call: the label f, calls of f, and lines of 4 and of 8 bytes
CallLines ==
    { << <<"f", ":">> >>,
      << f, <<"[", "-", "-", "x", "3", "1", "]">> >>,
      << f, <<"[", "-", "-", "x", "4", "]">> >>,
      << <<"_">> >>,
      << x5, <<"[", "x", "4", "+", "+", "]">> >> }
\* one call to come: of an entry point and three of these lines
OneCallSource ==
    \E h \in Headers : \E t1 \in CallLines : \E t2 \in CallLines : \E t3 \in CallLines :
        queue = << h \o << Line(0, t1), Line(0, t2), Line(0, t3) >> >>

InitCalls ==
    /\ InitInstance /\ emitCall = NoEmit
    /\ OneCallSource

SpecCalls == InitCalls /\ [][Next]_vars

\* ---------------------------------------------------- the sources of openers
\* the openers: each operator form, three operands with and without a step, two
\* operands, and ? with three operands
OpenerTexts ==
    { << <<"&">>, x1, <<"<">>, x2 >>,
      << <<"&">>, x1, <<"<", "=">>, x2 >>,
      << <<"&">>, x1, <<">">>, x2 >>,
      << <<"&">>, x4, x1, x2 >>,
      << <<"&">>, x4, x1, x2, <<"8">> >>,
      << <<"&">>, x1, x2 >>,
      << <<"?">>, x4, x1, x2 >>,
      << <<"?">>, x1, <<"=", "=">>, x2 >> }
\* one call to come: of the entry point, an opener, an opener inside it and a halt
OneOpenerSource ==
    \E t1 \in OpenerTexts : \E t2 \in OpenerTexts :
        queue = << << Line(0, << <<":">> >>), Line(0, t1), Line(1, t2), Line(0, << <<"_">> >>) >> >>

InitOpeners ==
    /\ InitInstance /\ emitCall = NoEmit
    /\ OneOpenerSource

SpecOpeners == InitOpeners /\ [][Next]_vars

\* ----------------------------------------------------- the sources of values
\* the value tokens: literals of each form, the constant RAM, the name f, names with
\* a size suffix, a name of Object.prototype and a name of nothing
ValueTokens ==
    { <<"7">>, <<"-", "3">>, <<"0", "x", "1", "2", "3", "4", "5">>, <<"4", "K", "B">>,
      <<"2", "m", "b">>, <<"'", "A">>, RAM, RAM \o <<"k", "b">>, f, f \o <<"K", "B">>,
      toString, <<"a", "b", "c">> }
\* one call to come: RAM defined, f defined as a constant or not, K defined as SRC,
\* the entry point, f defined as a label (after a halt) or not, and the line x5 SRC
OneValueSource ==
    \E src \in ValueTokens : \E constF \in BOOLEAN : \E labelF \in BOOLEAN :
        queue = << << Line(0, << RAM, <<"0", "x", "8", "0", "0", "0">> >>) >>
                   \o (IF constF THEN << Line(0, << f, <<"1", "6">> >>) >> ELSE << >>)
                   \o << Line(0, << <<"K">>, src >>), Line(0, << <<":">> >>) >>
                   \o (IF labelF THEN << Line(0, << <<"_">> >>), Line(0, << <<"f", ":">> >>) >>
                       ELSE << >>)
                   \o << Line(0, << x5, src >>) >> >>

InitValues ==
    /\ InitInstance /\ emitCall = NoEmit
    /\ OneValueSource

SpecValues == InitValues /\ [][Next]_vars

\* ------------------------------------------------------- the encoders alone
\* the field values given to the encoders: the ends of each range and values between
EncRegs == {0, 1, 21, 31}
Funct3s == 0..7
Funct7s == {0, 1, 42, 64, 127}
Imm12s == {0 - 2048, 0 - 1366, 0 - 1, 0, 1, 1365, 2047}
Off13s == {0 - 4096, 0 - 2732, 0 - 2, 0, 2, 2730, 2048, 4094}
Imm20s == {0, 1, 74565, 524288, 699050, 1048575}
Off21s == {0 - 1048576, 0 - 699052, 0 - 2, 0, 2, 2048, 4096, 699050, 1048574}

EmitCall(fmt, op, f3, f7, rd, rs1, rs2, imm) ==
    [fmt |-> fmt, op |-> op, f3 |-> f3, f7 |-> f7, rd |-> rd, rs1 |-> rs1, rs2 |-> rs2, imm |-> imm]

\* the encoder calls: the opcodes are those pass2 gives to each encoder
EmitCalls ==
    { EmitCall("R", 51, f3, f7, rd, rs1, rs2, 0) :
          f3 \in Funct3s, f7 \in Funct7s, rd \in EncRegs, rs1 \in EncRegs, rs2 \in EncRegs }
    \cup { EmitCall("I", op, f3, 0, rd, rs1, 0, imm) :
          op \in {19, 3, 103}, f3 \in Funct3s, rd \in EncRegs, rs1 \in EncRegs, imm \in Imm12s }
    \cup { EmitCall("S", 35, f3, 0, 0, rs1, rs2, imm) :
          f3 \in Funct3s, rs1 \in EncRegs, rs2 \in EncRegs, imm \in Imm12s }
    \cup { EmitCall("B", 99, f3, 0, 0, rs1, rs2, imm) :
          f3 \in Funct3s, rs1 \in EncRegs, rs2 \in EncRegs, imm \in Off13s }
    \cup { EmitCall("U", op, 0, 0, rd, 0, 0, imm) : op \in {55, 23}, rd \in 0..31, imm \in Imm20s }
    \cup { EmitCall("J", 111, 0, 0, rd, 0, 0, imm) : rd \in 0..31, imm \in Off21s }

InitEncoders ==
    /\ InitInstance
    /\ queue = <<>>
    /\ emitCall \in EmitCalls

\* the mnemonic given with the call
EmitAsm == TraceAsm(emitCall.fmt, <<emitCall.rd, emitCall.rs1, emitCall.rs2, emitCall.imm>>)

\* the call is made once, on the instance as constructed
Emitted(o) ==
    /\ code = <<>>
    /\ code' = o.code /\ asmTrace' = o.asmTrace
    /\ UNCHANGED <<labels, constants, origin, lines, blockCounter, phase, pc, inCode, blockStack,
                   bCounter, i, ret, console, queue, hist1, hist2, pass1Pc, ncompiles, fresh,
                   vars06, emitCall>>

EmitR ==
    /\ emitCall.fmt = "R"
    /\ Emitted(emitR(This, emitCall.op, emitCall.f3, emitCall.f7, emitCall.rd, emitCall.rs1,
                     emitCall.rs2, EmitAsm))
EmitI ==
    /\ emitCall.fmt = "I"
    /\ Emitted(emitI(This, emitCall.op, emitCall.f3, emitCall.rd, emitCall.rs1, emitCall.imm, EmitAsm))
EmitS ==
    /\ emitCall.fmt = "S"
    /\ Emitted(emitS(This, emitCall.op, emitCall.f3, emitCall.rs1, emitCall.rs2, emitCall.imm, EmitAsm))
EmitU ==
    /\ emitCall.fmt = "U"
    /\ Emitted(emitU(This, emitCall.op, emitCall.rd, emitCall.imm, EmitAsm))
EmitB ==
    /\ emitCall.fmt = "B"
    /\ Emitted(emitB(This, emitCall.op, emitCall.f3, emitCall.rs1, emitCall.rs2, emitCall.imm, EmitAsm))
EmitJ ==
    /\ emitCall.fmt = "J"
    /\ Emitted(emitJ(This, emitCall.op, emitCall.rd, emitCall.imm, EmitAsm))

NextEncoders == EmitR \/ EmitI \/ EmitS \/ EmitU \/ EmitB \/ EmitJ

SpecEncoders == InitEncoders /\ [][NextEncoders]_vars

\* ---------------------------------------------------- emitLoadConst alone
\* the values given to emitLoadConst: the ends of the 12-bit range, their neighbours,
\* and values of more bits, of both signs
LoadValues ==
    {0 - 2147479552, 0 - 74565, 0 - 65536, 0 - 4096, 0 - 2049, 0 - 2048, 0 - 1, 0, 7,
     2047, 2048, 4095, 4096, 65536, 74565, 2147479552, 2147483647}

InitLoadConst ==
    /\ InitInstance
    /\ queue = <<>>
    /\ emitCall \in { EmitCall("LoadConst", 0, 0, 0, rd, 0, 0, val) : rd \in 0..31, val \in LoadValues }

EmitLoadConst ==
    /\ emitCall.fmt = "LoadConst"
    /\ Emitted(emitLoadConst(This, emitCall.rd, emitCall.imm))

SpecLoadConst == InitLoadConst /\ [][EmitLoadConst]_vars

\* ----------------------------------------------------- v0.6: the registers
\* the tokens given to isReg and parseReg
Tokens06(n) == { RegName(k) : k \in 0..n } \cup { toString, RAM, f }

varsMain == <<code, labels, constants, origin, lines, asmTrace, blockCounter, phase, pc, inCode,
              blockStack, bCounter, i, ret, console, queue, hist1, hist2, pass1Pc, ncompiles, fresh>>

Init06 ==
    /\ InitInstance /\ emitCall = NoEmit
    /\ queue = <<>>

IsReg06 ==
    /\ \E t \in Tokens06(MaxRegTok) : call06' = "isReg" /\ tok06' = t /\ res06' = isReg06(t)
    /\ UNCHANGED <<varsMain, emitCall>>

ParseReg06 ==
    /\ \E t \in Tokens06(MaxRegTok) : call06' = "parseReg" /\ tok06' = t /\ res06' = parseReg06(t)
    /\ UNCHANGED <<varsMain, emitCall>>

Next06 == IsReg06 \/ ParseReg06

SpecV06 == Init06 /\ [][Next06]_vars

\* -------------------------------------------------------------- properties
\* the line k of this.lines is met by the passes after a ':' line or a label line
InCodeAt(k) ==
    \E j \in 1..(k - 1) : LineStartsWithColon(lines[j].tokens) \/ LineEndsWithColon(lines[j].tokens)
\* the last message given to log() is the build error of a TypeError
LastLogIsTypeError == Len(console) > 0 /\ console[Len(console)].err = TypeError
RegNames == { RegName(k) : k \in 0..31 }

\* C1: when compile() succeeds, pc of pass1 after its end-of-input closing, minus
\* this.origin, is the number of bytes of this.code after pass2.
C1_SizeConsistency == phase = "done" => Sub(pass1Pc, origin) = Len(code)

\* C2: every address stored in this.labels by pass1 is a multiple of 4, whatever the
\* VALUE of the entry-point line.
C2_LabelsAligned == \A k \in DOMAIN labels : labels[k] % 4 = 0

\* C3: after compile(A) and then compile(B) on one instance, the bytes returned, asmTrace,
\* labels and constants are those of compile(B) on a new instance, whether compile(A)
\* succeeded or failed (the calls are compile(B), compile(A), compile(B); the first is
\* the one made on the new instance).
C3_ReuseEqualsFresh ==
    (ncompiles = 3 /\ phase \in {"done", "failed"}) => Outcome(ret, asmTrace) = fresh
\* the third call has returned bytes, and the call before it failed
C3_Witness ==
    /\ ncompiles = 3 /\ phase = "done" /\ Len(ret.bytes) > 0
    /\ \E k \in 1..Len(console) : console[k].type = "err"

\* C4: when compile() aborts it returns null, and this.code and this.asmTrace hold no
\* byte and no entry produced before the error.
C4_NoPartialOutput == phase = "failed" => (ret = Null /\ code = <<>> /\ asmTrace = <<>>)

\* pass2 is about to meet a line whose text is . or .. as a break or continue, and the
\* block stack, once the dedent of the line is done, holds no while and no range frame
BreakOutsideLoopReached ==
    /\ phase = "pass2" /\ i <= Len(lines)
    /\ lines[i].tokens \in { << <<".">> >>, << <<".", ".">> >> }
    /\ LET d == P2Dedent(P2State, lines[i].indent, labels)
       IN  ~d.thrown /\ d.inCode /\ ~HasLoopFrame(d.blockStack)

\* C5: a . or .. line met in pass2 while the block stack holds no while and no range
\* frame makes compile() return null, and no jump is emitted for it: this.code holds
\* what it held once the dedent of the line was done.
C5_BreakOutsideLoopFails ==
    [][BreakOutsideLoopReached =>
         /\ phase' = "failed" /\ ret' = Null
         /\ code' = P2Dedent(P2State, lines[i].indent, labels).code]_vars
\* compile() has failed with a TypeError on a . line with only if frames open
C5_Witness ==
    /\ phase = "failed" /\ ret = Null /\ LastLogIsTypeError
    /\ i <= Len(lines) /\ lines[i].tokens = << <<".">> >>
    /\ blockStack # <<>> /\ \A k \in 1..Len(blockStack) : blockStack[k].type = "if"

\* the four operators that pass2 generates a branch for
GeneratedOps == { <<"<">>, <<">", "=">>, <<"=", "=">>, <<"!", "=">> }
\* a ? opener or a while-form & opener with another operator token
BadOperatorOpener(tokens) ==
    /\ IsBlockOpener(tokens) /\ ~IsCallForm(tokens) /\ ~isRange(tokens)
    /\ Tok(tokens, 3) \notin GeneratedOps

\* C6: a ? or while-form & opener whose operator is none of <, >=, ==, != is a fatal
\* error: compile() does not succeed on a source that has one in its code.
C6_BadOperatorFails ==
    phase = "done" => \A k \in 1..Len(lines) : InCodeAt(k) => ~BadOperatorOpener(lines[k].tokens)

\* a jump line or a call line whose target pass1 has recorded no label for
UnresolvedTarget(tokens) ==
    /\ IsIdentifier(T0(tokens)) /\ T0(tokens) # <<"_">> /\ ~isReg(T0(tokens))
    /\ Len(tokens) = 1 \/ IsCallForm(tokens)
    /\ Get(labels, T0(tokens)) = Undef

\* C7: a jump line or a call line whose target was not recorded as a label by pass1
\* makes compile() fail: compile() does not succeed on a source that has one in its code.
C7_UnresolvedTargetFails ==
    phase = "done" => \A k \in 1..Len(lines) : InCodeAt(k) => ~UnresolvedTarget(lines[k].tokens)

\* the register tokens of a store, a load, a conditional opener or a range opener
RegisterOperands(tokens) ==
    LET t0 == T0(tokens)
        t1 == Tok(tokens, 2)
    IN  IF IsCallForm(tokens) \/ t0 \in { <<"_">>, <<"=">> } THEN {}
        ELSE IF IsBlockOpener(tokens)
        THEN (IF isRange(tokens) THEN { Tok(tokens, 2), Tok(tokens, 3), Tok(tokens, 4) }
              ELSE { Tok(tokens, 2), Tok(tokens, 4) })
        ELSE IF StartsWith(t0, <<"[">>) THEN { StripChars(t0, {"[", "]", "-"}), t1 }
        ELSE IF isReg(t0) /\ StartsWith(t1, <<"[">>) THEN { StripChars(t1, {"[", "]", "+"}) }
        ELSE {}

\* C8: parseReg returns the number of each of x0..x31 and throws for every other token,
\* so that when compile() succeeds every register token of a store, a load, a
\* conditional opener or a range opener in the code of the source is one of x0..x31,
\* given its number by parseReg.
C8_UnknownRegisterFails ==
    phase = "done" =>
        \A k \in 1..Len(lines) : InCodeAt(k) =>
            \A t \in RegisterOperands(lines[k].tokens) :
                /\ t \in RegNames
                /\ parseReg(t) = [thrown |-> FALSE, val |-> CHOOSE n \in 0..31 : RegName(n) = t]

\* C9: in v0.6, isReg is true and parseReg returns the number for each of x0..x31.
C9_AllRegistersKnown06 ==
    tok06 \in RegNames =>
        /\ call06 = "isReg" => res06 = TRUE
        /\ call06 = "parseReg" => (~res06.thrown /\ RegName(res06.val) = tok06)

\* the block stack that the pushes and pops of hist leave, from an empty one; ok is
\* whether every pop took the frame pushed last among those not yet popped
RECURSIVE Replay(_, _)
Replay(hist, stack) ==
    IF hist = <<>> THEN [ok |-> TRUE, stack |-> stack]
    ELSE LET e == Head(hist)
         IN  IF e.ev = "push" THEN Replay(Tail(hist), Append(stack, e.frame))
             ELSE IF stack # <<>> /\ Top(stack) = e.frame THEN Replay(Tail(hist), Pop(stack))
             ELSE [ok |-> FALSE, stack |-> stack]
\* no frame is pushed twice
PushedOnce(hist) ==
    \A j, k \in 1..Len(hist) : (hist[j].ev = "push" /\ hist[k] = hist[j]) => j = k

\* C10: in each pass every frame pushed on the block stack is popped in the reverse
\* order of the pushes, at most once while the pass runs and exactly once when the
\* pass has ended: the stack is then empty.
C10_BlockClosureSymmetry ==
    /\ PushedOnce(hist1) /\ PushedOnce(hist2)
    /\ Replay(hist1, <<>>).ok /\ Replay(hist2, <<>>).ok
    /\ phase = "pass1" => Replay(hist1, <<>>).stack = blockStack
    /\ phase \in {"pass2", "done", "failed"} => Replay(hist1, <<>>).stack = <<>>
    /\ phase \in {"pass2", "failed"} => Replay(hist2, <<>>).stack = blockStack
    /\ phase = "done" => (Replay(hist2, <<>>).stack = <<>> /\ blockStack = <<>>)
\* compile() has succeeded on a source with a block opened inside a block, one frame
\* popped by a dedent and one by the end of the input
C10_Witness ==
    /\ phase = "done" /\ Len(lines) = 4
    /\ \E k \in 1..(Len(hist2) - 1) : hist2[k].ev = "push" /\ hist2[k + 1].ev = "push"
    /\ lines[4].indent = 1

\* the names of the end labels of the frames of a stack: one per block
FrameIds(stack) == { stack[k].end : k \in 1..Len(stack) }
\* what the step of a pass over the line ln does to the frames that were on the stack:
\* those opened at a column >= the indent of ln are gone, the others are where they were
DedentRespectsIndent(ln) ==
    \A k \in 1..Len(blockStack) :
        /\ lines[ln].indent <= blockStack[k].indent => blockStack[k].end \notin FrameIds(blockStack')
        /\ lines[ln].indent > blockStack[k].indent =>
               (k <= Len(blockStack') /\ blockStack'[k] = blockStack[k])

\* C11: in both passes, a frame opened at column c is off the block stack once a later
\* line of indent <= c has been processed, and a later line of indent > c does not pop it.
C11_IndentRespectingNesting ==
    [][(phase \in {"pass1", "pass2"} /\ i <= Len(lines)) => DedentRespectsIndent(i)]_vars
\* pass1 has processed an opener at column 0, an opener at column 1 and a line at
\* column 1: the second frame is popped, the first is still on the stack
C11_Witness ==
    /\ phase = "pass1" /\ i = 5
    /\ lines[2].indent = 0 /\ lines[3].indent = 1 /\ lines[4].indent = 1
    /\ Len(blockStack) = 1 /\ blockStack[1].indent = 0
    /\ Len(hist1) = 3 /\ hist1[3].ev = "pop" /\ hist1[3].frame.indent = 1

\* the decimal literal of an integer
Literal(v) == IF v < 0 THEN <<"-">> \o DecStr(0 - v) ELSE DecStr(v)
\* pass2 is about to meet the line RD T1 + T2 with T1 and T2 no registers
FoldLineReached ==
    /\ phase = "pass2" /\ i <= Len(lines) /\ inCode
    /\ Len(lines[i].tokens) = 4
    /\ isReg(lines[i].tokens[1]) /\ lines[i].tokens[3] = <<"+">>
    /\ ~isReg(lines[i].tokens[2]) /\ ~isReg(lines[i].tokens[4])
    /\ ~StartsWith(lines[i].tokens[2], <<"[">>)
\* the line RD V, V the literal of value(T1) + value(T2), in place of the line i
LoadOfSum ==
    Line(lines[i].indent,
         << lines[i].tokens[1],
            Literal(parseValue(lines[i].tokens[2], constants, labels)
                    + parseValue(lines[i].tokens[4], constants, labels)) >>)

\* C12: the line RD T1 + T2, T1 and T2 literals or defined constants, makes pass2 emit
\* the four bytes that the line RD V does, V the literal of value(T1) + value(T2).
C12_ConstantFold ==
    [][FoldLineReached =>
         /\ Len(code') = Len(code) + 4
         /\ code' = P2Line(P2State, LoadOfSum, labels, constants).code]_vars
\* compile() has succeeded on `x5 RAM + 7` with RAM defined as 0x8000: one LUI
C12_Witness ==
    /\ phase = "done" /\ Len(lines) = 3 /\ lines[3].tokens = << x5, RAM, <<"+">>, <<"7">> >>
    /\ Get(constants, RAM) = 32768
    /\ code = <<183, 130, 0, 0>>


\* the bits lo .. lo + n - 1 of the word stored as four bytes, least significant first
WordBit(bytes, k) == (bytes[(k \div 8) + 1] \div (2 ^ (k % 8))) % 2
RECURSIVE WordField(_, _, _)
WordField(bytes, lo, n) ==
    IF n = 0 THEN 0 ELSE WordBit(bytes, lo) + 2 * WordField(bytes, lo + 1, n - 1)
\* the n-bit two's complement value v as a signed integer
SignExtend(v, n) == IF v >= 2 ^ (n - 1) THEN v - 2 ^ n ELSE v
\* the fields of a word by the RISC-V layout of each format
DecodeR(b) ==
    [op |-> WordField(b, 0, 7), rd |-> WordField(b, 7, 5), f3 |-> WordField(b, 12, 3),
     rs1 |-> WordField(b, 15, 5), rs2 |-> WordField(b, 20, 5), f7 |-> WordField(b, 25, 7)]
DecodeI(b) ==
    [op |-> WordField(b, 0, 7), rd |-> WordField(b, 7, 5), f3 |-> WordField(b, 12, 3),
     rs1 |-> WordField(b, 15, 5), imm |-> SignExtend(WordField(b, 20, 12), 12)]
DecodeS(b) ==
    [op |-> WordField(b, 0, 7), f3 |-> WordField(b, 12, 3),
     rs1 |-> WordField(b, 15, 5), rs2 |-> WordField(b, 20, 5),
     imm |-> SignExtend(WordField(b, 7, 5) + 32 * WordField(b, 25, 7), 12)]
DecodeB(b) ==
    [op |-> WordField(b, 0, 7), f3 |-> WordField(b, 12, 3),
     rs1 |-> WordField(b, 15, 5), rs2 |-> WordField(b, 20, 5),
     imm |-> SignExtend(2 * WordField(b, 8, 4) + 32 * WordField(b, 25, 6)
                        + 2048 * WordField(b, 7, 1) + 4096 * WordField(b, 31, 1), 13)]
DecodeU(b) ==
    [op |-> WordField(b, 0, 7), rd |-> WordField(b, 7, 5), imm |-> WordField(b, 12, 20)]
DecodeJ(b) ==
    [op |-> WordField(b, 0, 7), rd |-> WordField(b, 7, 5),
     imm |-> SignExtend(2 * WordField(b, 21, 10) + 2048 * WordField(b, 20, 1)
                        + 4096 * WordField(b, 12, 8) + 1048576 * WordField(b, 31, 1), 21)]
\* the arguments of the call that the format encodes
EmitFields ==
    LET c == emitCall
    IN  CASE c.fmt = "R" -> [op |-> c.op, rd |-> c.rd, f3 |-> c.f3, rs1 |-> c.rs1, rs2 |-> c.rs2, f7 |-> c.f7]
          [] c.fmt = "I" -> [op |-> c.op, rd |-> c.rd, f3 |-> c.f3, rs1 |-> c.rs1, imm |-> c.imm]
          [] c.fmt \in {"S", "B"} -> [op |-> c.op, f3 |-> c.f3, rs1 |-> c.rs1, rs2 |-> c.rs2, imm |-> c.imm]
          [] OTHER -> [op |-> c.op, rd |-> c.rd, imm |-> c.imm]
Decoded ==
    CASE emitCall.fmt = "R" -> DecodeR(code)
      [] emitCall.fmt = "I" -> DecodeI(code)
      [] emitCall.fmt = "S" -> DecodeS(code)
      [] emitCall.fmt = "B" -> DecodeB(code)
      [] emitCall.fmt = "U" -> DecodeU(code)
      [] OTHER -> DecodeJ(code)

\* C13: for each of emitR, emitI, emitS, emitB, emitU and emitJ and all in-range field
\* values, decoding the emitted word by the RISC-V layout of the format returns the
\* opcode, the registers, the functs and the immediate that were given.
C13_EncoderRoundTrip ==
    (emitCall.fmt # "none" /\ code # <<>>) => (Len(code) = 4 /\ Decoded = EmitFields)
\* emitB has encoded the offset -2732 (bits 12, 10, 8, 6, 4, 2) with funct3 5
C13_Witness ==
    /\ emitCall.fmt = "B" /\ emitCall.imm = 0 - 2732 /\ emitCall.f3 = 5
    /\ emitCall.rs1 = 21 /\ emitCall.rs2 = 31
    /\ Len(code) = 4 /\ DecodeB(code).imm = 0 - 2732


\* the number of mnemonic (two-space-prefixed) entries of this.asmTrace
MnemonicEntries == Cardinality({ k \in 1..Len(asmTrace) : asmTrace[k].kind = "asm" })
\* pass2 has just processed the halt line `_` of the code section
HaltLineDone ==
    /\ phase = "pass2" /\ i > 1 /\ i <= Len(lines) + 1
    /\ lines[i - 1].tokens = << <<"_">> >> /\ inCode

\* C14: every encoder call appends four bytes to this.code, least significant byte first,
\* and one mnemonic entry to this.asmTrace: in every reachable state the length of
\* this.code is a multiple of 4 and 4 times the number of mnemonic entries of the trace,
\* and the halt line `_` yields the bytes 6F 00 00 00.
C14_FourBytesPerMnemonic ==
    /\ Len(code) % 4 = 0
    /\ Len(code) = 4 * MnemonicEntries
    /\ HaltLineDone =>
           /\ Len(code) >= 4
           /\ SubSeq(code, Len(code) - 3, Len(code)) = <<111, 0, 0, 0>>
           /\ asmTrace[Len(asmTrace)].kind = "asm"
\* pass2 has processed `_` inside a loop and then, after the loop's closing jump, `_`
C14_Witness ==
    /\ HaltLineDone /\ i = 5 /\ lines[3].tokens = << <<"_">> >>
    /\ Len(code) = 16 /\ MnemonicEntries = 4
    /\ SubSeq(code, 5, 8) = <<111, 0, 0, 0>>


\* the locals and fields at the start of each pass of the compile that has returned
P1Start ==
    LET r == reset(This)
    IN  [pc |-> 0, inCode |-> FALSE, blockStack |-> <<>>, labels |-> r.labels,
         constants |-> r.constants, origin |-> r.origin, blockCounter |-> r.blockCounter,
         hist |-> <<>>]
P2Start ==
    [pc |-> origin, inCode |-> FALSE, blockStack |-> <<>>, bCounter |-> 0, code |-> <<>>,
     asmTrace |-> <<>>, hist |-> <<>>, thrown |-> FALSE, err |-> NoError]
\* each pass after its first k lines
RECURSIVE P1Upto(_)
P1Upto(k) == IF k = 0 THEN P1Start ELSE P1Line(P1Upto(k - 1), lines[k])
RECURSIVE P2Upto(_)
P2Upto(k) == IF k = 0 THEN P2Start ELSE P2Line(P2Upto(k - 1), lines[k], labels, constants)
\* pc of each pass on reaching the line k, after the dedent pops of that line
P1PcAt(k) == P1Dedent(P1Upto(k - 1), lines[k].indent).pc
P2PcAt(k) == P2Dedent(P2Upto(k - 1), lines[k].indent, labels).pc
\* the line k comes after the entry-point line
AfterEntry(k) == \E j \in 1..(k - 1) : LineStartsWithColon(lines[j].tokens)

\* C15: when compile() succeeds, pc of pass1 on reaching a line (after its dedent pops)
\* is pc of pass2 on reaching that line; stated for the lines after the entry-point
\* line, where both passes count from this.origin.
C15_PassesAgreeOnPc ==
    phase = "done" => \A k \in 1..Len(lines) : AfterEntry(k) => P1PcAt(k) = P2PcAt(k)


\* pass1 has returned
Pass1Done == phase \in {"pass2", "done", "failed"}

\* C16: for every block opener processed by pass1, whether its frame was popped by a
\* dedent or by the closing at the end of the input, this.labels holds an address for
\* the end label _B_END_<id> of the block when pass1 has returned.
C16_EndLabelRecorded ==
    Pass1Done =>
        \A k \in 1..Len(hist1) :
            hist1[k].ev = "push" => IsNum(Get(labels, hist1[k].frame.end))


\* C17: the closing of the frames left open at the end of the input adds to pc of pass1
\* what a dedent popping the same frames adds: 0 bytes for an if frame, 4 for a while
\* frame and 8 for a range frame.
C17_ClosingBytesAlike ==
    [][(phase = "pass1" /\ i > Len(lines)) => pass1Pc' = P1Dedent(P1State, 0).pc]_vars


\* the frames pushed, in the order of the pushes
IsPush(e) == e.ev = "push"
Pushes(hist) == SelectSeq(hist, IsPush)
\* the k-th frame pushed has the labels of id k
IdsInOrder(hist) ==
    \A k \in 1..Len(Pushes(hist)) :
        Pushes(hist)[k].frame.start = BStart(k) /\ Pushes(hist)[k].frame.end = BEnd(k)

\* C18: while pass2 has not aborted its pushes and pops are the first pushes and pops
\* of pass1, with the same frames (kind, indent, start label, end label, register and
\* step), and when it has returned they are all of them; the k-th opener has id k in
\* both passes, no id is used twice, and bCounter ends equal to this.blockCounter.
C18_SameBlockEvents ==
    /\ phase \in {"pass2", "done"} =>
           /\ Len(hist2) <= Len(hist1) /\ hist2 = SubSeq(hist1, 1, Len(hist2))
           /\ IdsInOrder(hist1) /\ IdsInOrder(hist2)
           /\ Len(Pushes(hist1)) = blockCounter /\ Len(Pushes(hist2)) = bCounter
    /\ phase = "done" => (hist2 = hist1 /\ bCounter = blockCounter)
\* compile() has succeeded on a range loop of step 8 with a second block inside
C18_Witness ==
    /\ phase = "done" /\ bCounter = 2 /\ Len(hist2) = 4
    /\ hist2[1].frame.type = "range" /\ hist2[1].frame.step = 8
    /\ hist2[2].ev = "push" /\ hist2[2].frame.indent = 1


\* pass2 is about to meet a . or .. line of the code section with a loop frame open
\* once the dedent of the line is done
BreakInLoopReached ==
    /\ phase = "pass2" /\ i <= Len(lines)
    /\ lines[i].tokens \in { << <<".">> >>, << <<".", ".">> >> }
    /\ LET d == P2Dedent(P2State, lines[i].indent, labels)
       IN  ~d.thrown /\ d.inCode /\ HasLoopFrame(d.blockStack)
\* the innermost while or range frame of a stack, found from the top
RECURSIVE InnermostLoop(_)
InnermostLoop(stack) == IF IsLoopFrame(Top(stack)) THEN Top(stack) ELSE InnermostLoop(Pop(stack))
\* the label a . or .. line jumps to
JumpTarget(ln, stack) ==
    IF ln.tokens = << <<".">> >> THEN InnermostLoop(stack).end ELSE InnermostLoop(stack).start

\* C19: a . or .. line inside a loop emits one JAL x0 whose offset is the address of
\* the end label (for .) or of the start label (for ..) of the innermost while or range
\* frame of the block stack, minus pc of the line.
C19_BreakContinueTarget ==
    [][BreakInLoopReached =>
         LET d == P2Dedent(P2State, lines[i].indent, labels)
             target == Get(labels, JumpTarget(lines[i], d.blockStack))
         IN  /\ Len(code') = Len(d.code) + 4
             /\ SubSeq(code', 1, Len(d.code)) = d.code
             /\ IsNum(target)
             /\ DecodeJ(SubSeq(code', Len(d.code) + 1, Len(d.code) + 4))
                    = [op |-> 111, rd |-> 0, imm |-> target - d.pc]]_vars


\* the line k is a ? or while-form & opener of the code section with one of the four
\* operators that have a branch
CondOpenerAt(k) ==
    /\ AfterEntry(k)
    /\ IsBlockOpener(lines[k].tokens) /\ ~IsCallForm(lines[k].tokens) /\ ~isRange(lines[k].tokens)
    /\ Tok(lines[k].tokens, 3) \in { <<"<">>, <<">", "=">>, <<"=", "=">>, <<"!", "=">> }
\* funct3 of the branch on the negated condition
NegatedFunct3(op) ==
    CASE op = <<"<">> -> 5 [] op = <<">", "=">> -> 4 [] op = <<"=", "=">> -> 1 [] OTHER -> 0
\* the bytes pass2 emits when it closes a frame
P2ClosingBytes(type) == IF type = "while" THEN 4 ELSE IF type = "range" THEN 8 ELSE 0
RECURSIVE P2ClosingBytesFrom(_, _)
P2ClosingBytesFrom(stack, j) ==
    IF j > Len(stack) THEN 0 ELSE P2ClosingBytes(stack[j].type) + P2ClosingBytesFrom(stack, j + 1)
\* the first line after k that closes the block opened at k, or the end of the input
ClosingLine(k) ==
    IF \E m \in (k + 1)..Len(lines) : lines[m].indent <= lines[k].indent
    THEN CHOOSE m \in (k + 1)..Len(lines) :
             /\ lines[m].indent <= lines[k].indent
             /\ \A n \in (k + 1)..(m - 1) : lines[n].indent > lines[k].indent
    ELSE Len(lines) + 1
\* pc of pass2 just past the closing of the block opened at k: the frames above it and
\* the frame itself are closed from pc of pass2 after the last line of the block
EndAddress(k) ==
    LET s == P2Upto(ClosingLine(k) - 1)
    IN  s.pc + P2ClosingBytesFrom(s.blockStack, Len(P2Upto(k).blockStack))

\* C20: when compile() succeeds, a ? or while-form & opener has emitted one B-type
\* branch on the negated condition, operands in source order, whose offset is the
\* address just past the closing of its block minus pc of the opener, whether the block
\* is closed by a dedent or at the end of the input.
C20_OpenerBranch ==
    phase = "done" =>
        \A k \in 1..Len(lines) :
            CondOpenerAt(k) =>
                LET d == P2Dedent(P2Upto(k - 1), lines[k].indent, labels)
                    t == lines[k].tokens
                IN  /\ Len(P2Upto(k).code) = Len(d.code) + 4
                    /\ DecodeB(SubSeq(code, Len(d.code) + 1, Len(d.code) + 4))
                           = [op |-> 99, f3 |-> NegatedFunct3(t[3]),
                              rs1 |-> parseReg(t[2]).val, rs2 |-> parseReg(t[4]).val,
                              imm |-> EndAddress(k) - d.pc]


\* the line k is a range opener of the code section
RangeOpenerAt(k) ==
    AfterEntry(k) /\ ~IsCallForm(lines[k].tokens) /\ isRange(lines[k].tokens)
\* the four bytes of this.code from the offset n
WordAt(n) == SubSeq(code, n + 1, n + 4)

\* C21: when compile() succeeds, a range opener & RD RSRC REND [STEP] met at pc p has
\* emitted ADDI RD, RSRC, 0 at p and BGE RD, REND at p + 4 with the end label of the
\* block as target, and the closing of its block has emitted ADDI RD, RD, STEP and
\* then a JAL x0 with target p + 4; STEP is 1 when the fifth token is absent.
C21_RangeLoop ==
    phase = "done" =>
        \A k \in 1..Len(lines) :
            RangeOpenerAt(k) =>
                LET d == P2Dedent(P2Upto(k - 1), lines[k].indent, labels)
                    t == lines[k].tokens
                    p == d.pc
                    j == Len(P2Upto(k).blockStack)
                    s == P2Upto(ClosingLine(k) - 1)
                    above == P2ClosingBytesFrom(s.blockStack, j + 1)
                    STEP == IF Len(t) >= 5 THEN ParseInt(t[5], 10) ELSE 1
                    endLabel == Get(labels, Top(P2Upto(k).blockStack).end)
                IN  /\ DecodeI(WordAt(Len(d.code)))
                           = [op |-> 19, rd |-> parseReg(t[2]).val, f3 |-> 0,
                              rs1 |-> parseReg(t[3]).val, imm |-> 0]
                    /\ IsNum(endLabel)
                    /\ DecodeB(WordAt(Len(d.code) + 4))
                           = [op |-> 99, f3 |-> 5, rs1 |-> parseReg(t[2]).val,
                              rs2 |-> parseReg(t[4]).val, imm |-> endLabel - (p + 4)]
                    /\ DecodeI(WordAt(Len(s.code) + above))
                           = [op |-> 19, rd |-> parseReg(t[2]).val, f3 |-> 0,
                              rs1 |-> parseReg(t[2]).val, imm |-> STEP]
                    /\ DecodeJ(WordAt(Len(s.code) + above + 4))
                           = [op |-> 111, rd |-> 0, imm |-> (p + 4) - (s.pc + above + 4)]


\* pass2 is about to meet a call line TARGET [--REG] of the code section, TARGET a label
\* of this.labels and REG a register
CallLineReached ==
    /\ phase = "pass2" /\ i <= Len(lines) /\ inCode
    /\ IsCallForm(lines[i].tokens)
    /\ T0(lines[i].tokens) \notin { <<"_">>, <<"=">> }
    /\ IsNum(Get(labels, T0(lines[i].tokens)))
    /\ ~parseReg(StripChars(lines[i].tokens[2], {"[", "]", "-"})).thrown
    /\ ~P2Dedent(P2State, lines[i].indent, labels).thrown

\* C22: a call line TARGET [--REG] met at pc p emits five words: AUIPC x1, 0 and
\* ADDI x1, x1, 20 (x1 = p + 20, the address after the jump), ADDI REG, REG, -8,
\* SD x1, 0(REG), and a JAL x0 whose offset is address(TARGET) - (p + 16).
C22_CallSequence ==
    [][CallLineReached =>
         LET d == P2Dedent(P2State, lines[i].indent, labels)
             n == Len(d.code)
             REG == parseReg(StripChars(lines[i].tokens[2], {"[", "]", "-"})).val
             w(k) == SubSeq(code', n + 4 * k + 1, n + 4 * k + 4)
         IN  /\ Len(code') = n + 20 /\ SubSeq(code', 1, n) = d.code
             /\ pc' = d.pc + 20
             /\ DecodeU(w(0)) = [op |-> 23, rd |-> 1, imm |-> 0]
             /\ DecodeI(w(1)) = [op |-> 19, rd |-> 1, f3 |-> 0, rs1 |-> 1, imm |-> 20]
             /\ DecodeI(w(2)) = [op |-> 19, rd |-> REG, f3 |-> 0, rs1 |-> REG, imm |-> 0 - 8]
             /\ DecodeS(w(3)) = [op |-> 35, f3 |-> 3, rs1 |-> REG, rs2 |-> 1, imm |-> 0]
             /\ DecodeJ(w(4)) = [op |-> 111, rd |-> 0,
                                 imm |-> Get(labels, T0(lines[i].tokens)) - (d.pc + 16)]]_vars
\* compile() has succeeded on the label f at 0x8000, a halt and a call of f at 0x8004:
\* the offset of the jump at 0x8014 is -20
C22_Witness ==
    /\ phase = "done" /\ Len(lines) = 5 /\ origin = 32768
    /\ lines[3].tokens = << <<"f", ":">> >> /\ lines[4].tokens = << <<"_">> >>
    /\ lines[5].tokens = << f, <<"[", "-", "-", "x", "3", "1", "]">> >>
    /\ Len(code) = 24 /\ DecodeJ(SubSeq(code, 21, 24)).imm = 0 - 20


\* C23: emitLoadConst(rd, val) emits one word: ADDI rd, x0, val (opcode 0x13) when
\* -2048 <= val <= 2047, and otherwise LUI rd (opcode 0x37) with the bits 31..12 of
\* val as immediate, the low 12 bits being dropped.
C23_LoadConst ==
    (emitCall.fmt = "LoadConst" /\ code # <<>>) =>
        /\ Len(code) = 4 /\ Len(asmTrace) = 1
        /\ IF emitCall.imm >= 0 - 2048 /\ emitCall.imm <= 2047
           THEN DecodeI(code) = [op |-> 19, rd |-> emitCall.rd, f3 |-> 0, rs1 |-> 0,
                                 imm |-> emitCall.imm]
           ELSE DecodeU(code) = [op |-> 55, rd |-> emitCall.rd,
                                 imm |-> (emitCall.imm \div 4096) % 1048576]
\* emitLoadConst(5, 0x10000) has emitted LUI x5, 0x10: the bytes B7 02 01 00
C23_Witness ==
    /\ emitCall.fmt = "LoadConst" /\ emitCall.rd = 5 /\ emitCall.imm = 65536
    /\ code = <<183, 2, 1, 0>> /\ DecodeU(code).imm = 16


\* pass2 is about to meet the line RD T1 OP T2 of the code section, RD and T1 registers
ArithLineReached ==
    /\ phase = "pass2" /\ i <= Len(lines) /\ inCode
    /\ Len(lines[i].tokens) = 4
    /\ lines[i].tokens[3] \in { <<"+">>, <<"-">>, <<"|">>, <<"&">>, <<"^">> }
    /\ lines[i].tokens[1] \in RegNames /\ lines[i].tokens[2] \in RegNames
\* funct3 and funct7 of the R-type instruction of an operator, and funct3 of its
\* register-immediate form (SUB has none: it is ADDI of the negated immediate)
RTypeFuncts(op) ==
    CASE op = <<"+">> -> [f3 |-> 0, f7 |-> 0]
      [] op = <<"-">> -> [f3 |-> 0, f7 |-> 32]
      [] op = <<"|">> -> [f3 |-> 6, f7 |-> 0]
      [] op = <<"&">> -> [f3 |-> 7, f7 |-> 0]
      [] OTHER -> [f3 |-> 4, f7 |-> 0]
ITypeFunct3(op) ==
    CASE op \in { <<"+">>, <<"-">> } -> 0
      [] op = <<"|">> -> 6
      [] op = <<"&">> -> 7
      [] OTHER -> 4

\* C24: for a line RD T1 OP T2 with OP among + - | & ^ and T1 a register, pass2 emits
\* the R-type instruction of OP (ADD, SUB, OR, AND, XOR) when T2 is a register and the
\* register-immediate instruction of OP when T2 is an immediate (for - the ADDI of
\* the negated immediate).
C24_ArithmeticByOperator ==
    [][ArithLineReached =>
         LET d == P2Dedent(P2State, lines[i].indent, labels)
             t == lines[i].tokens
             w == SubSeq(code', Len(d.code) + 1, Len(d.code) + 4)
             v == parseValue(t[4], constants, labels)
         IN  /\ Len(code') = Len(d.code) + 4
             /\ IF t[4] \in RegNames
                THEN DecodeR(w) = [op |-> 51, rd |-> parseReg(t[1]).val,
                                   f3 |-> RTypeFuncts(t[3]).f3, rs1 |-> parseReg(t[2]).val,
                                   rs2 |-> parseReg(t[4]).val, f7 |-> RTypeFuncts(t[3]).f7]
                ELSE DecodeI(w) = [op |-> 19, rd |-> parseReg(t[1]).val,
                                   f3 |-> ITypeFunct3(t[3]), rs1 |-> parseReg(t[2]).val,
                                   imm |-> IF t[3] = <<"-">> THEN 0 - v ELSE v]]_vars


\* the reference resolver, by its ordered rules: a name is a constant or a label when
\* the map has an entry of that name
HasEntry(map, name) == name \in DOMAIN map
RefMultiplier(str) ==
    IF EndsWith(ToLowerCase(str), <<"k", "b">>) THEN 1024
    ELSE IF EndsWith(ToLowerCase(str), <<"m", "b">>) THEN 1048576
    ELSE 1
RefStripped(str) == IF RefMultiplier(str) = 1 THEN str ELSE SubSeq(str, 1, Len(str) - 2)
RefValue(str, cs, ls) ==
    LET m == RefMultiplier(str)
        name == RefStripped(str)
    IN  IF str = <<>> THEN 0
        ELSE IF HasEntry(cs, name) THEN cs[name] * m
        ELSE IF HasEntry(ls, name) THEN ls[name]
        ELSE IF StartsWith(name, <<"0", "x">>) THEN ParseInt(name, 16) * m
        ELSE IF StartsWith(name, <<"'">>) THEN CharCodeAt1(name) * m
        ELSE IF ParseInt(name, 10) # NaN THEN ParseInt(name, 10) * m
        ELSE 0
\* pass2 is about to meet the line RD SRC of the code section, SRC no register
LoadLineReached ==
    /\ phase = "pass2" /\ i <= Len(lines) /\ inCode
    /\ Len(lines[i].tokens) = 2
    /\ lines[i].tokens[1] \in RegNames /\ ~isReg(lines[i].tokens[2])
    /\ ~StartsWith(lines[i].tokens[2], <<"[">>)
\* pass1 is about to meet a line NAME VALUE before the code section
ConstantLineReached ==
    /\ phase = "pass1" /\ i <= Len(lines) /\ ~inCode
    /\ ~LineStartsWithColon(lines[i].tokens) /\ ~LineEndsWithColon(lines[i].tokens)

\* C25: parseValue is the reference resolver: the value pass1 stores for a line
\* NAME VALUE and the value pass2 loads for a line RD SRC are the values the ordered
\* rules give (size suffix, constant, label, hex, character, decimal, else 0), a name
\* in both maps being the constant.
C25_ValueResolver ==
    [][/\ ConstantLineReached =>
              constants' = Put(constants, lines[i].tokens[1],
                               RefValue(Tok(lines[i].tokens, 2), constants, labels))
       /\ LoadLineReached =>
              code' = emitLoadConst(P2State, parseReg(lines[i].tokens[1]).val,
                                    RefValue(lines[i].tokens[2], constants, labels)).code]_vars


\* a pass is about to meet a block opener of the code section
OpenerReached(pass) ==
    /\ phase = pass /\ i <= Len(lines) /\ inCode
    /\ lines[i].tokens[1] \in { <<"&">>, <<"?">> } /\ ~IsCallForm(lines[i].tokens)
\* the kind of an opener by the rule
OpenerKind(t) ==
    IF t[1] = <<"?">> THEN "if"
    ELSE IF Len(t) >= 4 /\ t[3] \notin { <<"<">>, <<">">>, <<"=", "=">>, <<"!", "=">>,
                                         <<"<", "=">>, <<">", "=">> }
    THEN "range"
    ELSE "while"
\* the last event of a history is the push of a frame of the kind and of the indent
PushedLast(hist, kind, indent) ==
    /\ hist # <<>>
    /\ hist[Len(hist)].ev = "push"
    /\ hist[Len(hist)].frame.type = kind /\ hist[Len(hist)].frame.indent = indent

\* C26: an & opener is a range loop iff its third token is none of < > == != <= >= and
\* the line has at least four tokens, every other & opener is a while and a ? opener
\* is an if: pass1 pushes a frame of that kind, and so does pass2 unless it aborts on
\* the line.
C26_OpenerClassification ==
    [][/\ OpenerReached("pass1") =>
              PushedLast(hist1', OpenerKind(lines[i].tokens), lines[i].indent)
       /\ (OpenerReached("pass2") /\ phase' = "pass2") =>
              PushedLast(hist2', OpenerKind(lines[i].tokens), lines[i].indent)]_vars
\* compile() has succeeded on `& x1 <= x2` (a while) with `& x4 x1 x2` (a range) inside
C26_Witness ==
    /\ phase = "done"
    /\ lines[2].tokens = << <<"&">>, x1, <<"<", "=">>, x2 >>
    /\ lines[3].tokens = << <<"&">>, x4, x1, x2 >>
    /\ Len(hist2) = 4 /\ hist2[1].frame.type = "while" /\ hist2[2].frame.type = "range"
    /\ hist2[2].frame.step = 1


\* C27: this.constants is written by pass1 only on lines met while inCode is false,
\* pass2 writes none of this.labels, this.constants and this.origin, and pass1 writes
\* neither this.code nor this.asmTrace.
C27_SymbolTableFrame ==
    [][/\ phase = "pass1" => (code' = code /\ asmTrace' = asmTrace)
       /\ (phase = "pass1" /\ inCode) => constants' = constants
       /\ phase = "pass2" => (labels' = labels /\ constants' = constants /\ origin' = origin)]_vars
\* compile() has succeeded on a source that defines RAM and K before the entry point
\* and loads K after it
C27_Witness ==
    /\ phase = "done" /\ DOMAIN constants = { RAM, <<"K">> } /\ constants[<<"K">>] = 7
    /\ lines[Len(lines)].tokens = << x5, <<"7">> >>
    /\ code = <<147, 2, 112, 0>>


\* C28: in every state of either pass the indents of the frames of the block stack
\* increase strictly from the bottom to the top: no two open frames share a column.
C28_IndentsIncrease ==
    \A k \in 1..(Len(blockStack) - 1) : blockStack[k].indent < blockStack[k + 1].indent
\* pass2 has three frames open, at the columns 0, 1 and 2
C28_Witness ==
    /\ phase = "pass2" /\ Len(blockStack) = 3
    /\ blockStack[1].indent = 0 /\ blockStack[2].indent = 1 /\ blockStack[3].indent = 2
    /\ blockStack[3].type = "if"


\* C29: at every line boundary of pass2, pc - this.origin is the length of this.code.
C29_PcTracksCode == phase = "pass2" => Sub(pc, origin) = Len(code)


\* a branch or jump that a step of pass2 emits: its address, its target label, its format
JumpAt(at, label, fmt) == [at |-> at, label |-> label, fmt |-> fmt]
\* the jumps of the closers of the frames that a line at the indent pops, from pc at
RECURSIVE CloserJumps(_, _, _)
CloserJumps(stack, indent, at) ==
    IF stack = <<>> \/ indent > Top(stack).indent THEN << >>
    ELSE (IF Top(stack).type = "while" THEN << JumpAt(at, Top(stack).start, "J") >>
          ELSE IF Top(stack).type = "range" THEN << JumpAt(at + 4, Top(stack).start, "J") >>
          ELSE << >>)
         \o CloserJumps(Pop(stack), indent, at + P2ClosingBytes(Top(stack).type))
\* the branch or jump of the line itself, met at pc at with the block stack and the
\* counter that the dedent has left
LineJumps(t, stack, counter, at) ==
    IF LineStartsWithColon(t) \/ LineEndsWithColon(t) \/ ~inCode THEN << >>
    ELSE IF t[1] = <<"_">> THEN << >>
    ELSE IF t[1] = <<"=">> /\ (Len(t) = 1 \/ Includes(t[2], <<"+", "+">>)) THEN << >>
    ELSE IF IsCallForm(t) THEN << JumpAt(at + 16, t[1], "J") >>
    ELSE IF t[1] \in { <<".">>, <<".", ".">> }
    THEN (IF HasLoopFrame(stack)
          THEN << JumpAt(at, JumpTarget([tokens |-> t], stack), "J") >> ELSE << >>)
    ELSE IF t[1] \in { <<"&">>, <<"?">> }
    THEN (IF OpenerKind(t) = "range" THEN << JumpAt(at + 4, BEnd(counter + 1), "B") >>
          ELSE IF Len(t) >= 3 /\ t[3] \in { <<"<">>, <<">", "=">>, <<"=", "=">>, <<"!", "=">> }
          THEN << JumpAt(at, BEnd(counter + 1), "B") >>
          ELSE << >>)
    ELSE IF StartsWith(t[1], <<"[">>) \/ isReg(t[1]) THEN << >>
    ELSE << JumpAt(at, t[1], "J") >>
\* the branches and jumps of the next step of pass2
StepJumps ==
    IF i > Len(lines) THEN CloserJumps(blockStack, 0 - 1, pc)
    ELSE LET d == P2Dedent(P2State, lines[i].indent, labels)
         IN  CloserJumps(blockStack, lines[i].indent, pc)
             \o LineJumps(lines[i].tokens, d.blockStack, d.bCounter, d.pc)
\* the word that the step has emitted for the jump e has the offset label - address
OffsetIsRelative(e) ==
    LET n == Len(code) + (e.at - pc)
        w == SubSeq(code', n + 1, n + 4)
        offset == Get(labels, e.label) - e.at
    IN  /\ Len(code') >= n + 4
        /\ e.fmt = "J" => (DecodeJ(w).op = 111 /\ DecodeJ(w).imm = offset)
        /\ e.fmt = "B" => (DecodeB(w).op = 99 /\ DecodeB(w).imm = offset)
\* every branch or jump a step of pass2 emits for a label of this.labels
StepOffsetsRelative ==
    (phase = "pass2" /\ phase' # "failed") =>
        \A k \in 1..Len(StepJumps) :
            IsNum(Get(labels, StepJumps[k].label)) => OffsetIsRelative(StepJumps[k])
\* the line k is a while opener of the code section
WhileOpenerAt(k) ==
    /\ AfterEntry(k) /\ lines[k].tokens[1] = <<"&">> /\ ~IsCallForm(lines[k].tokens)
    /\ OpenerKind(lines[k].tokens) = "while"
\* the jump of the closer of the while opened at the line k lands on pc of the opener
WhileCloserLandsOnOpener(k) ==
    LET s == P2Upto(ClosingLine(k) - 1)
        above == P2ClosingBytesFrom(s.blockStack, Len(P2Upto(k).blockStack) + 1)
    IN  DecodeJ(WordAt(Len(s.code) + above))
            = [op |-> 111, rd |-> 0, imm |-> P2PcAt(k) - (s.pc + above)]

\* when compile() has succeeded, the closer of every while lands on its opener
WhileClosersLand ==
    phase = "done" => \A k \in 1..Len(lines) : WhileOpenerAt(k) => WhileCloserLandsOnOpener(k)

\* C30: every branch or jump word that pass2 emits for a target label of this.labels
\* (opener branches, loop-back jumps, break, continue, call jumps, label jumps) has
\* the offset label address - address of that instruction in pass2, and when
\* compile() succeeds the jump of a while closer lands on pc of its opener.
C30_RelativeOffsets == [][StepOffsetsRelative]_vars /\ []WhileClosersLand
=============================================================================
